---- MODULE Spec2Model ----
(***************************************************************************)
(* SignaturePacketIDE: the upload / extract / review application (App),    *)
(* its per-document pipeline (processSingleDocument), the candidate        *)
(* scanner (pdfService) and the metadata extractor adapter (geminiService).*)
(*                                                                         *)
(* JavaScript's run-to-completion scheduling is the unit of an action: one *)
(* action is one macrotask (a user event or the settling of one external   *)
(* call) together with every microtask continuation it triggers, e.g. the  *)
(* settling of the last promise of a Promise.all and the code after the    *)
(* await of that Promise.all.                                              *)
(*                                                                         *)
(* React state (documents, isProcessing, currentStatus) is updated with    *)
(* functional updaters, so an update always applies to the current value.  *)
(***************************************************************************)
EXTENDS Integers, Sequences, FiniteSets, TLC

VARIABLES
    apiKey,         \* process.env.API_KEY is set
    documents,      \* useState<ProcessedDocument[]>
    isProcessing,   \* useState(false)
    currentStatus,  \* useState<string>('')
    exporting,      \* a handleDownloadPack call is awaiting generateGroupedPdfs / zip
    nextId,         \* source of fresh document identifiers (uuidv4)
    request,        \* documents whose runs the pending Promise.all of processAllDocuments awaits
    run,            \* per document identifier: the locals of its processSingleDocument call
    observed,       \* history: what each external call of a run answered
    groupingMode,   \* useState<GroupingMode>('agreement')
    displayedPages, \* the array the allPages memo holds, as the sort of displayedPages left it
    edits,          \* history: how many review edits the user has made
    exportCall,     \* the locals of the pending generateGroupedPdfs call
    downloaded      \* output: the ZIP the step just taken handed to the browser (link.click),
                    \* or the alert it raised

vars == <<apiKey, documents, isProcessing, currentStatus, exporting, nextId, request, run, observed,
          groupingMode, displayedPages, edits, exportCall, downloaded>>

----------------------------------------------------------------------------
(* Program constants *)

CONCURRENT_AI_REQUESTS_PER_DOC == 5
BATCH_SIZE == 10

(* JavaScript's undefined for an optional number, and null for a scan result *)
NoProgress == -1
Null == -1
UNDEF == "<undefined>"

(* Bounds of the model *)
MaxDocs == 2        \* documents uploaded over a behaviour
PipePages == 6      \* pages of the long document of SpecPipeline
ScanPages == 12     \* pages of the document of SpecScan: more than one batch
MaxEdits == 1       \* review edits made over a behaviour of SpecReview, SpecExport,
                    \* SpecLifecycle, SpecInFlight and SpecNames
MaxClicks == 3      \* clicks on copy buttons over a behaviour of SpecCopies
MaxCounts == 2      \* clicks on copy buttons over a behaviour of SpecPackets
MaxRenames == 2     \* signatory names typed over a behaviour of SpecHeaders

(* document identifiers: those of the uploads, and one more for the review state *)
DocIds == 1..(MaxDocs + 1)

----------------------------------------------------------------------------
(* Strings *)

Upper == <<"A","B","C","D","E","F","G","H","I","J","K","L","M",
           "N","O","P","Q","R","S","T","U","V","W","X","Y","Z">>
Lower == <<"a","b","c","d","e","f","g","h","i","j","k","l","m",
           "n","o","p","q","r","s","t","u","v","w","x","y","z">>

LowerChar(c) ==
    IF \E k \in 1..26 : Upper[k] = c
    THEN Lower[CHOOSE k \in 1..26 : Upper[k] = c]
    ELSE c

RECURSIVE toLowerCase(_)
toLowerCase(s) ==
    IF Len(s) = 0 THEN ""
    ELSE LowerChar(SubSeq(s, 1, 1)) \o toLowerCase(SubSeq(s, 2, Len(s)))

endsWith(s, suffix) ==
    /\ Len(s) >= Len(suffix)
    /\ SubSeq(s, Len(s) - Len(suffix) + 1, Len(s)) = suffix

(* a || b on strings: "" and undefined are falsy *)
OrElse(v, d) == IF v \in {UNDEF, ""} THEN d ELSE v

----------------------------------------------------------------------------
(* Sequences *)

Min(a, b) == IF a <= b THEN a ELSE b

RECURSIVE Flat(_)
Flat(ss) == IF ss = <<>> THEN <<>> ELSE Head(ss) \o Flat(Tail(ss))

(* Array.prototype.sort((a, b) => a - b): ascending and stable; element k of s lands *)
(* behind the elements smaller than it and the equal ones that precede it           *)
(* a faulty variant of SortAsc: the comparator is reversed, (a, b) => b - a *)
SortDesc(s) ==
    LET Rank(k) == 1 + Cardinality({j \in 1..Len(s) : s[j] > s[k] \/ (s[j] = s[k] /\ j < k)})
    IN  [i \in 1..Len(s) |-> s[CHOOSE k \in 1..Len(s) : Rank(k) = i]]

SortAsc(s) ==
    LET Rank(k) == 1 + Cardinality({j \in 1..Len(s) : s[j] < s[k] \/ (s[j] = s[k] /\ j < k)})
    IN  [i \in 1..Len(s) |-> s[CHOOSE k \in 1..Len(s) : Rank(k) = i]]

(* Math.round(q) for q = (num / den) >= 0 *)
Round(num, den) == (2 * num + den) \div (2 * den)

----------------------------------------------------------------------------
(* The environment: the files a user can drop, and what the external       *)
(* collaborators (pdf.js, the Gemini oracle) can answer for each of them.  *)
(* A file is identified by its name.  Every external call can also fail;   *)
(* the failures are chosen by the actions, not fixed here.                 *)

LongFile == "Credit.pdf"
ScanFile == "Facility.pdf"
ReviewFile == "Lease.pdf"
TermsFile == "Deed.pdf"
SmallFiles == {"SPA.pdf", "NDA.PDF", "notes.txt", "pdf.docx"}

(* File.type *)
FileType(f) ==
    CASE f = "SPA.pdf"   -> "application/pdf"
      [] f = "NDA.PDF"   -> ""
      [] f = "notes.txt" -> "text/plain"
      [] f = "pdf.docx"  -> "application/msword"
      [] OTHER           -> "application/pdf"

(* The page classifier: the pattern of findSignaturePageCandidates,              *)
(*   /(?<!\w)(Signature|...|Agreed\s+and\s+Accepted|...|By:|...|Date:)(?!\w)/i  *)
(* \w is a letter, a digit or the underscore *)
Digits == {"0", "1", "2", "3", "4", "5", "6", "7", "8", "9"}
WordChars == {Upper[k] : k \in 1..26} \cup {Lower[k] : k \in 1..26} \cup Digits \cup {"_"}

(* \s *)
Spaces == {" ", "\t", "\n", "\r"}

(* the alternatives of the pattern, in its order; the words of an alternative are *)
(* separated by \s+, and the i flag makes the letter case irrelevant              *)
Vocabulary ==
    << <<"signature">>, <<"execution">>, <<"excution">>, <<"signatory">>, <<"executed">>,
       <<"signed">>, <<"witness">>, <<"agreed", "and", "accepted">>, <<"accepted", "by">>,
       <<"acknowledged", "by">>, <<"duly", "authorized">>, <<"duly", "authorised">>,
       <<"by:">>, <<"name:">>, <<"title:">>, <<"position:">>, <<"date:">> >>

(* the character of text at position i is a word character; no character, no word character *)
WordCharAt(text, i) == i \in 1..Len(text) /\ SubSeq(text, i, i) \in WordChars

(* the positions behind the matches of the alternative words that start at position i *)
RECURSIVE TermEnds(_, _, _)
TermEnds(text, i, words) ==
    LET e == i + Len(Head(words))
    IN  IF e - 1 > Len(text) \/ toLowerCase(SubSeq(text, i, e - 1)) # Head(words) THEN {}
        ELSE IF Len(words) = 1 THEN {e}
        ELSE UNION {TermEnds(text, k, Tail(words)) :
                       k \in {k \in (e + 1)..Len(text) :
                                 \A q \in e..(k - 1) : SubSeq(text, q, q) \in Spaces}}

(* a faulty variant of regexTest: the pattern is written with \b on both sides *)
regexTestBoundary(text) ==
    \E i \in 1..Len(text) : \E a \in 1..Len(Vocabulary) :
        /\ WordCharAt(text, i - 1) # WordCharAt(text, i)
        /\ \E e \in TermEnds(text, i, Vocabulary[a]) :
               WordCharAt(text, e - 1) # WordCharAt(text, e)

(* regex.test(text): some position that no word character precedes starts an *)
(* alternative that no word character follows                                *)
regexTest(text) ==
    \E i \in 1..Len(text) : \E a \in 1..Len(Vocabulary) :
        /\ ~WordCharAt(text, i - 1)
        /\ \E e \in TermEnds(text, i, Vocabulary[a]) : ~WordCharAt(text, e)

(* The pages of the file of terms: a term of the vocabulary in some letter case *)
(* between every pair of neighbours, then pages with several terms or none      *)
Prefixes == <<"", " ", "x", "_", "4", "-">>
Written == <<"Signature", "sIgNeD", "By:", "WITNESS", "Agreed \tand\nAccepted", "name:">>
Suffixes == <<"", "\n", "s", "_", "7", ",">>
Others ==
    <<"Signatures By: x", "Designated Signatory_ Signed7", "Schedule of Assets",
      "countersigned by:x", "Accepted by", "Acceptedby", "Date:2024", "Date: 2024",
      "Agreed andAccepted", "", "By", "Title :", "(Position:)", "Excution-Execution">>

PageTexts ==
    [p \in 1..(Len(Prefixes) * Len(Written) * Len(Suffixes)) |->
        Prefixes[((p - 1) \div (Len(Written) * Len(Suffixes))) + 1]
        \o Written[(((p - 1) \div Len(Suffixes)) % Len(Written)) + 1]
        \o Suffixes[((p - 1) % Len(Suffixes)) + 1]] \o Others

(* textContent.items.map(item => item.str).join(' ') of page pageNum of the file of terms *)
PageText(pageNum) == PageTexts[pageNum]

(* regex.test(text) of each of its pages *)
TermsFound == [p \in 1..Len(PageTexts) |-> regexTest(PageText(p))]

(* pdf.numPages *)
NumPages(f) ==
    CASE f = LongFile -> PipePages
      [] f = ScanFile -> ScanPages
      [] f = ReviewFile -> 3
      [] f = TermsFile -> Len(PageTexts)
      [] OTHER        -> 1

(* regex.test(text) for the text of page pageNum (1-based) of f: one file *)
(* has no signature wording at all, one has it on a few scattered pages  *)
TextMatches(f, pageNum) ==
    CASE f = "NDA.PDF" -> FALSE
      [] f = ScanFile  -> pageNum % 9 \in {1, 2, 3}
      [] f = TermsFile -> TermsFound[pageNum]
      [] OTHER         -> TRUE

(* pdf.getPage / page.getTextContent can fail for page pageNum of f: any  *)
(* page of most files, only some pages of the many-paged one, none of the *)
(* file of terms                                                          *)
ReadCanFail(f, pageNum) == f # TermsFile /\ (f = ScanFile => pageNum % 6 = 4)

(* Signing blocks as the oracle reports them; a field the oracle leaves out is undefined *)
BlockFull == [partyName |-> "Acme Corp", signatoryName |-> "Jane Smith", capacity |-> "Director"]
BlockBare == [partyName |-> "", signatoryName |-> UNDEF, capacity |-> UNDEF]
BlockPart == [partyName |-> UNDEF, signatoryName |-> "", capacity |-> ""]
BlockBeta == [partyName |-> "Beta LLC", signatoryName |-> "", capacity |-> "CEO"]
BlockAdam == [partyName |-> "Acme Corp", signatoryName |-> "Adam Jones", capacity |-> "CFO"]

(* The signature lists the oracle can read off page pageIndex (0-based) of f *)
Readings(f, pageIndex) ==
    IF f = LongFile
    THEN IF pageIndex = 5 THEN {<<BlockBare, BlockBeta>>}
         ELSE IF pageIndex % 2 = 0 THEN {<<BlockFull>>} ELSE {<<BlockPart>>}
    ELSE IF f = ScanFile THEN {<<BlockFull>>}
    ELSE IF f = ReviewFile
    THEN IF pageIndex = 0 THEN {<<BlockFull>>}
         ELSE IF pageIndex = 1 THEN {<<BlockAdam>>} ELSE {<<BlockBare>>}
    ELSE {<<>>, <<BlockFull>>, <<BlockBare, BlockBeta>>}

(* What ai.models.generateContent can do: reject, or resolve with a response whose   *)
(* text is missing/empty, is no JSON, or is JSON (with or without a signatures list) *)
Rejects == [kind |-> "reject"]
EmptyText == [kind |-> "empty"]
Unparsable == [kind |-> "unparsable"]
Json(v) == [kind |-> "json", value |-> v]
NoSignaturesJson == Json([error |-> "RESOURCE_EXHAUSTED"])
SignaturesJson(sigs) == Json([signatures |-> sigs])

OracleFailures(f) ==
    IF f = LongFile THEN {Rejects, NoSignaturesJson}
    ELSE IF f = ScanFile THEN {Rejects}
    ELSE {Rejects, EmptyText, Unparsable, NoSignaturesJson}

OracleResponses(f, pageIndex) ==
    OracleFailures(f) \cup {SignaturesJson(sigs) : sigs \in Readings(f, pageIndex)}

(* renderPageToImage's result; the pixel dimensions travel with the image *)
RenderedImage(f, pageIndex) == <<"data:image/jpeg", f, pageIndex>>

----------------------------------------------------------------------------
(* geminiService.ts: extractSignatureMetadata *)

Returned(v) == [threw |-> FALSE, value |-> v]
Thrown == [threw |-> TRUE]

(* const text = response.text; if (!text) throw ...; return JSON.parse(text) *)
OracleCall(resp) ==
    CASE resp.kind = "reject"     -> Thrown
      [] resp.kind = "empty"      -> Thrown
      [] resp.kind = "unparsable" -> Thrown
      [] OTHER                    -> Returned(resp.value)

(* a faulty variant of extractSignatureMetadata: no catch around the oracle call *)
extractSignatureMetadataNoCatch(resp) == OracleCall(resp)

extractSignatureMetadata(resp) ==
    LET r == OracleCall(resp)
    IN  IF r.threw THEN Returned([signatures |-> <<>>]) ELSE r

----------------------------------------------------------------------------
(* App: the records of one candidate page (the body of chunk.map's callback *)
(* after both awaits)                                                       *)

(* a faulty variant of PlaceholderRecord: the default entry copies the (absent) oracle fields *)
PlaceholderRecordBlank(doc, pageIndex, image) ==
    [id |-> <<doc.id, pageIndex, 1>>,
     documentId |-> doc.id,
     documentName |-> doc.name,
     pageIndex |-> pageIndex,
     pageNumber |-> pageIndex + 1,
     partyName |-> "",
     signatoryName |-> "",
     capacity |-> "",
     copies |-> 1,
     thumbnailUrl |-> image]

PlaceholderRecord(doc, pageIndex, image) ==
    [id |-> <<doc.id, pageIndex, 1>>,
     documentId |-> doc.id,
     documentName |-> doc.name,
     pageIndex |-> pageIndex,
     pageNumber |-> pageIndex + 1,
     partyName |-> "Unknown Party",
     signatoryName |-> "",
     capacity |-> "Signatory",
     copies |-> 1,
     thumbnailUrl |-> image]

(* a faulty variant of SignatureRecord: the oracle's fields are copied without defaults *)
SignatureRecordRaw(doc, pageIndex, image, sig, k) ==
    [id |-> <<doc.id, pageIndex, k>>,
     documentId |-> doc.id,
     documentName |-> doc.name,
     pageIndex |-> pageIndex,
     pageNumber |-> pageIndex + 1,
     partyName |-> sig.partyName,
     signatoryName |-> sig.signatoryName,
     capacity |-> sig.capacity,
     copies |-> 1,
     thumbnailUrl |-> image]

(* a faulty variant of SignatureRecord: the record keeps the 1-based page number as its index *)
SignatureRecordOneBased(doc, pageIndex, image, sig, k) ==
    [id |-> <<doc.id, pageIndex, k>>,
     documentId |-> doc.id,
     documentName |-> doc.name,
     pageIndex |-> pageIndex + 1,
     pageNumber |-> pageIndex + 1,
     partyName |-> OrElse(sig.partyName, "Unknown Party"),
     signatoryName |-> OrElse(sig.signatoryName, ""),
     capacity |-> OrElse(sig.capacity, "Signatory"),
     copies |-> 1,
     thumbnailUrl |-> image]

SignatureRecord(doc, pageIndex, image, sig, k) ==
    [id |-> <<doc.id, pageIndex, k>>,
     documentId |-> doc.id,
     documentName |-> doc.name,
     pageIndex |-> pageIndex,
     pageNumber |-> pageIndex + 1,
     partyName |-> OrElse(sig.partyName, "Unknown Party"),
     signatoryName |-> OrElse(sig.signatoryName, ""),
     capacity |-> OrElse(sig.capacity, "Signatory"),
     copies |-> 1,
     thumbnailUrl |-> image]

(* a faulty variant of RecordsOfMetadata: no default entry for an empty signatures list *)
RecordsOfMetadataNoDefault(doc, pageIndex, image, metadata) ==
    IF "signatures" \notin DOMAIN metadata THEN Thrown
    ELSE Returned([k \in 1..Len(metadata.signatures) |->
                     [id |-> <<doc.id, pageIndex, k>>,
                      documentId |-> doc.id,
                      documentName |-> doc.name,
                      pageIndex |-> pageIndex,
                      pageNumber |-> pageIndex + 1,
                      partyName |-> OrElse(metadata.signatures[k].partyName, "Unknown Party"),
                      signatoryName |-> OrElse(metadata.signatures[k].signatoryName, ""),
                      capacity |-> OrElse(metadata.signatures[k].capacity, "Signatory"),
                      copies |-> 1,
                      thumbnailUrl |-> image]])

(* metadata.signatures.length on a value without signatures is a TypeError *)
RecordsOfMetadata(doc, pageIndex, image, metadata) ==
    IF "signatures" \notin DOMAIN metadata THEN Thrown
    ELSE IF Len(metadata.signatures) = 0
         THEN Returned(<<PlaceholderRecord(doc, pageIndex, image)>>)
         ELSE Returned([k \in 1..Len(metadata.signatures) |->
                          SignatureRecord(doc, pageIndex, image, metadata.signatures[k], k)])

(* try { render; extract; build records } catch (err) { return [] }, from the oracle's answer on *)
PageRecords(doc, pageIndex, image, resp) ==
    LET m == extractSignatureMetadata(resp)
        r == IF m.threw THEN Thrown ELSE RecordsOfMetadata(doc, pageIndex, image, m.value)
    IN  IF r.threw THEN <<>> ELSE r.value

----------------------------------------------------------------------------
(* App: documents *)

includes(s, sub) ==
    \E i \in 1..(Len(s) - Len(sub) + 1) : SubSeq(s, i, i + Len(sub) - 1) = sub

(* a faulty variant of isPdf: the name is searched for "pdf" instead of tested for its extension *)
isPdfByMention(f) == FileType(f) = "application/pdf" \/ includes(toLowerCase(f), "pdf")

(* const isPdf = f.type === 'application/pdf' || f.name.toLowerCase().endsWith('.pdf') *)
isPdf(f) == FileType(f) = "application/pdf" \/ endsWith(toLowerCase(f), ".pdf")

(* the object handleFileUpload builds for one file *)
NewDocument(id, f) ==
    [id |-> id,
     name |-> f,
     file |-> f,
     pageCount |-> 0,
     status |-> IF isPdf(f) THEN "pending" ELSE "error",
     progress |-> NoProgress,
     extractedPages |-> <<>>]

HasDoc(docs, id) == \E k \in 1..Len(docs) : docs[k].id = id
DocOf(docs, id) == docs[CHOOSE k \in 1..Len(docs) : docs[k].id = id]
StatusOf(docs, id) == IF HasDoc(docs, id) THEN DocOf(docs, id).status ELSE "absent"

(* prev.map(d => d.id === doc.id ? { ...d, status: 'processing', progress: 0 } : d) *)
MarkProcessing(docs, id) ==
    [k \in 1..Len(docs) |->
        IF docs[k].id = id THEN [docs[k] EXCEPT !.status = "processing", !.progress = 0]
        ELSE docs[k]]

(* prev.map(d => d.id === doc.id ? { ...d, progress } : d) *)
SetProgress(docs, id, progress) ==
    [k \in 1..Len(docs) |->
        IF docs[k].id = id THEN [docs[k] EXCEPT !.progress = progress] ELSE docs[k]]

(* a faulty variant of MarkCompleted: a document no longer in the list is put back *)
MarkCompletedOrInsert(docs, id, pageCount, extractedPages) ==
    IF HasDoc(docs, id)
    THEN [k \in 1..Len(docs) |->
            IF docs[k].id = id
            THEN [docs[k] EXCEPT !.status = "completed", !.progress = 100,
                                 !.pageCount = pageCount, !.extractedPages = extractedPages]
            ELSE docs[k]]
    ELSE Append(docs, [id |-> id, name |-> "", file |-> "", pageCount |-> pageCount,
                       status |-> "completed", progress |-> 100,
                       extractedPages |-> extractedPages])

(* prev.map(d => d.id === doc.id ? { ...d, status: 'completed', progress: 100, pageCount, extractedPages } : d) *)
MarkCompleted(docs, id, pageCount, extractedPages) ==
    [k \in 1..Len(docs) |->
        IF docs[k].id = id
        THEN [docs[k] EXCEPT !.status = "completed", !.progress = 100,
                             !.pageCount = pageCount, !.extractedPages = extractedPages]
        ELSE docs[k]]

(* a faulty variant of MarkError: the catch block only logs *)
MarkErrorSkipped(docs, id) == docs

(* a faulty variant of MarkError: every document still processing is marked, not only doc.id *)
MarkErrorEverywhere(docs, id) ==
    [k \in 1..Len(docs) |->
        IF docs[k].status = "processing" THEN [docs[k] EXCEPT !.status = "error"] ELSE docs[k]]

(* prev.map(d => d.id === doc.id ? { ...d, status: 'error' } : d) *)
MarkError(docs, id) ==
    [k \in 1..Len(docs) |->
        IF docs[k].id = id THEN [docs[k] EXCEPT !.status = "error"] ELSE docs[k]]

(* docsToProcess.map(doc => processSingleDocument(doc)): line 135 of each call, in order *)
RECURSIVE LaunchAll(_, _)
LaunchAll(docs, docsToProcess) ==
    IF docsToProcess = <<>> THEN docs
    ELSE LaunchAll(MarkProcessing(docs, Head(docsToProcess).id), Tail(docsToProcess))

(* a faulty variant of PendingDocs: every document is handed to the pipeline *)
PendingDocsUnfiltered(docs) == docs

(* documents.filter(d => d.status === 'pending') *)
PendingDocs(docs) == SelectSeq(docs, LAMBDA d : d.status = "pending")

(* a faulty variant of WithoutDoc: the documents are told apart by their name *)
WithoutDocByName(docs, id) ==
    SelectSeq(docs, LAMBDA d : \A k \in 1..Len(docs) : docs[k].id = id => d.name # docs[k].name)

(* prev.filter(d => d.id !== docId) *)
WithoutDoc(docs, id) == SelectSeq(docs, LAMBDA d : d.id # id)

(* documents.flatMap(d => d.extractedPages) *)
flatMap(docs) == Flat([k \in 1..Len(docs) |-> docs[k].extractedPages])

allPages == flatMap(documents)

----------------------------------------------------------------------------
(* App: the grouping engine (the displayedPages and navigationGroups memos) *)

GroupingModes == {"agreement", "counterparty", "signatory"}

(* String.prototype.localeCompare on the strings that reach it, in the order *)
(* of the default collation: letter by letter, case ignored, "" first, white *)
(* space before punctuation and punctuation before letters                   *)
Collation ==
    <<"", " ", " x.pdf ", ":?", ".pdf", "\"Gamma\" <SA>", "<*>.pdf", "a/b\\c",
      "Acme Corp", "Acme Corp :", "Adam Jones", "Annex.PDF", "Beta LLC", "Beta LLC ",
      "Beta|LLC%", "Credit.pdf", "Deed.pdf", "Facility.pdf",
      "Jane Smith", "Lease.pdf", "NDA.PDF", "notes.txt", "pdf.docx", "SPA.pdf", "Unknown Party",
      "Unknown Signatory", "Victor Hale", "ZZZ", "Zzzz Ahmed">>

CollationKey(s) == CHOOSE k \in 1..Len(Collation) : Collation[k] = s

localeCompare(a, b) ==
    IF CollationKey(a) < CollationKey(b) THEN -1
    ELSE IF CollationKey(a) > CollationKey(b) THEN 1 ELSE 0

(* the three comparators of displayedPages *)
byAgreement(a, b) ==
    IF a.documentName # b.documentName THEN localeCompare(a.documentName, b.documentName)
    ELSE a.pageIndex - b.pageIndex

byCounterparty(a, b) ==
    IF a.partyName # b.partyName THEN localeCompare(a.partyName, b.partyName)
    ELSE localeCompare(a.documentName, b.documentName)

bySignatory(a, b) ==
    LET sigA == OrElse(a.signatoryName, "ZZZ")
        sigB == OrElse(b.signatoryName, "ZZZ")
    IN  IF sigA # sigB THEN localeCompare(sigA, sigB)
        ELSE localeCompare(a.partyName, b.partyName)

compare(mode, a, b) ==
    CASE mode = "agreement"    -> byAgreement(a, b)
      [] mode = "counterparty" -> byCounterparty(a, b)
      [] OTHER                 -> bySignatory(a, b)

(* pages.sort(comparator): Array.prototype.sort is stable and sorts the array it is *)
(* called on; element k lands behind the elements the comparator puts before it and *)
(* the ones it ties with that precede it                                            *)
sort(pages, mode) ==
    LET Before(j, k) == \/ compare(mode, pages[j], pages[k]) < 0
                        \/ compare(mode, pages[j], pages[k]) = 0 /\ j < k
        Rank(k) == 1 + Cardinality({j \in 1..Len(pages) : Before(j, k)})
    IN  [i \in 1..Len(pages) |-> pages[CHOOSE k \in 1..Len(pages) : Rank(k) = i]]

(* a faulty variant of RenderedDocuments: the allPages memo is not recomputed *)
RenderedStale(docs) ==
    /\ displayedPages' = sort(displayedPages, groupingMode)
    /\ UNCHANGED groupingMode

(* a render after setDocuments(docs): the allPages memo is recomputed (a new array), *)
(* the displayedPages memo sorts that array for the mode on display                  *)
RenderedDocuments(docs) ==
    /\ displayedPages' = sort(flatMap(docs), groupingMode)
    /\ UNCHANGED groupingMode

(* a render after setGroupingMode(mode): documents is the same array, the allPages  *)
(* memo keeps the array it holds, and the displayedPages memo sorts that one again  *)
RenderedMode(mode) ==
    /\ groupingMode' = mode
    /\ displayedPages' = sort(displayedPages, mode)

(* the label a record is grouped under *)
GroupLabel(mode, p) ==
    CASE mode = "agreement"    -> p.documentName
      [] mode = "counterparty" -> p.partyName
      [] OTHER                 -> OrElse(p.signatoryName, "Unknown Signatory")

(* Array.from(new Set(labels)): the labels in the order of their first record *)
RECURSIVE Distinct(_)
Distinct(labels) ==
    IF labels = <<>> THEN <<>>
    ELSE LET rest == Distinct(SubSeq(labels, 1, Len(labels) - 1))
             last == labels[Len(labels)]
         IN  IF \E i \in 1..Len(rest) : rest[i] = last THEN rest ELSE Append(rest, last)

navigationGroups ==
    Distinct([i \in 1..Len(displayedPages) |-> GroupLabel(groupingMode, displayedPages[i])])

(* displayedPages.reduce(...), lines 581-612: a header goes before the first card and *)
(* before every card whose label differs from that of the card before it             *)
RECURSIVE HeadersOf(_, _)
HeadersOf(pages, mode) ==
    IF pages = <<>> THEN <<>>
    ELSE LET front == SubSeq(pages, 1, Len(pages) - 1)
             headerText == GroupLabel(mode, pages[Len(pages)])
             shouldInsertHeader ==
                 front = <<>> \/ GroupLabel(mode, front[Len(front)]) # headerText
         IN  IF shouldInsertHeader THEN Append(HeadersOf(front, mode), headerText)
             ELSE HeadersOf(front, mode)

groupHeaders == HeadersOf(displayedPages, groupingMode)

----------------------------------------------------------------------------
(* pdfService.ts: generateGroupedPdfs, the packet assembler *)

(* the key a record is filed under *)
GroupKey(mode, page) ==
    CASE mode = "agreement"    -> page.documentName
      [] mode = "counterparty" -> page.partyName
      [] OTHER                 -> OrElse(page.signatoryName, "Unknown_Signatory")

(* the first loop: records with copies <= 0 are skipped, the others pushed on the *)
(* list of their key; the keys keep the order in which they were first met        *)
GroupsOf(pagesToInclude, mode) ==
    LET included == SelectSeq(pagesToInclude, LAMBDA page : ~(page.copies <= 0))
        keys == Distinct([i \in 1..Len(included) |-> GroupKey(mode, included[i])])
    IN  [g \in 1..Len(keys) |->
            [groupName |-> keys[g],
             pages |-> SelectSeq(included, LAMBDA page : GroupKey(mode, page) = keys[g])]]

(* the characters groupName.replace(..., '') removes *)
IllegalChars == {"/", "\\", "?", "%", "*", ":", "|", "\"", "<", ">"}

RECURSIVE RemoveIllegal(_)
RemoveIllegal(s) ==
    IF Len(s) = 0 THEN ""
    ELSE IF SubSeq(s, 1, 1) \in IllegalChars THEN RemoveIllegal(SubSeq(s, 2, Len(s)))
    ELSE SubSeq(s, 1, 1) \o RemoveIllegal(SubSeq(s, 2, Len(s)))

(* String.prototype.trim *)
WhiteSpace == {" ", "\t", "\n", "\r"}

RECURSIVE trim(_)
trim(s) ==
    IF Len(s) = 0 THEN ""
    ELSE IF SubSeq(s, 1, 1) \in WhiteSpace THEN trim(SubSeq(s, 2, Len(s)))
    ELSE IF SubSeq(s, Len(s), Len(s)) \in WhiteSpace THEN trim(SubSeq(s, 1, Len(s) - 1))
    ELSE s

(* a faulty variant of SafeName: the name is trimmed before the characters are removed *)
SafeNameTrimFirst(groupName) ==
    LET cleaned == RemoveIllegal(trim(groupName))
        safeName == IF cleaned = "" THEN "Signature_Pack" ELSE cleaned
    IN  IF endsWith(toLowerCase(safeName), ".pdf") THEN safeName ELSE safeName \o ".pdf"

(* lines 210-216: the file name of a group *)
SafeName(groupName) ==
    LET cleaned == trim(RemoveIllegal(groupName))
        safeName == IF cleaned = "" THEN "Signature_Pack" ELSE cleaned
    IN  IF endsWith(toLowerCase(safeName), ".pdf") THEN safeName ELSE safeName \o ".pdf"

(* a faulty variant of PdfOf: the records are taken in the order of the list *)
PdfOfUnsorted(docs, pages) ==
    Flat([i \in 1..Len(pages) |->
            IF HasDoc(docs, pages[i].documentId)
            THEN [c \in 1..pages[i].copies |->
                     [file |-> DocOf(docs, pages[i].documentId).file,
                      pageIndex |-> pages[i].pageIndex,
                      of |-> pages[i].id]]
            ELSE <<>>])

(* a faulty variant of PdfOf: every record is added once, whatever its copies *)
PdfOfOnce(docs, pages) ==
    LET sorted == sort(pages, "agreement")
    IN  Flat([i \in 1..Len(sorted) |->
                IF HasDoc(docs, sorted[i].documentId)
                THEN <<[file |-> DocOf(docs, sorted[i].documentId).file,
                        pageIndex |-> sorted[i].pageIndex,
                        of |-> sorted[i].id]>>
                ELSE <<>>])

(* the pages of one output PDF: the group's records sorted by document name and   *)
(* page index, each copied from its source document and added copies times.  A    *)
(* page of the output is the source page it shows; of is the record it was added  *)
(* for (history)                                                                  *)
PdfOf(docs, pages) ==
    LET sorted == sort(pages, "agreement")
    IN  Flat([i \in 1..Len(sorted) |->
                IF HasDoc(docs, sorted[i].documentId)
                THEN [c \in 1..sorted[i].copies |->
                         [file |-> DocOf(docs, sorted[i].documentId).file,
                          pageIndex |-> sorted[i].pageIndex,
                          of |-> sorted[i].id]]
                ELSE <<>>])

(* the PDFs the second loop builds, one for each group, in the order of the groups *)
Packets(docs, groups) ==
    [g \in 1..Len(groups) |-> PdfOf(docs, groups[g].pages)]

(* results[safeName] = pdfBytes, group after group: a later group takes the entry *)
(* of an earlier one with the same file name                                      *)
ResultsOf(docs, groups) ==
    LET names == {SafeName(groups[g].groupName) : g \in 1..Len(groups)}
        Last(name) == CHOOSE g \in 1..Len(groups) :
                          /\ SafeName(groups[g].groupName) = name
                          /\ \A h \in (g + 1)..Len(groups) : SafeName(groups[h].groupName) # name
    IN  [name \in names |-> Packets(docs, groups)[Last(name)]]

(* what can go wrong after the click: reading or loading a source file or copying *)
(* a page for group at, saving the PDF of group at, or building the ZIP           *)
NoFailure == [kind |-> "none", at |-> 0]
ZipFailure == [kind |-> "zip", at |-> 0]
SourceFailure(g) == [kind |-> "source", at |-> g]
SaveFailure(g) == [kind |-> "save", at |-> g]

ExportFailures(groups) ==
    {NoFailure, ZipFailure}
        \cup {SourceFailure(g) : g \in 1..Len(groups)}
        \cup {SaveFailure(g) : g \in 1..Len(groups)}

(* a faulty variant of AssemblePdfs: a failing group is skipped and the rest returned *)
AssemblePdfsPartial(docs, groups, failure) ==
    IF failure.kind \in {"source", "save"}
    THEN Returned(ResultsOf(docs, SubSeq(groups, 1, failure.at - 1)
                                     \o SubSeq(groups, failure.at + 1, Len(groups))))
    ELSE Returned(ResultsOf(docs, groups))

(* the second loop: no try/catch, so the first failure rejects the whole call *)
AssemblePdfs(docs, groups, failure) ==
    IF failure.kind \in {"source", "save"}
    THEN Thrown
    ELSE Returned(ResultsOf(docs, groups))

(* handleDownloadPack, lines 374-393: what the end of an export shows the user.   *)
(* Every PDF goes into the ZIP under its name and the ZIP is downloaded, or the   *)
(* catch block raises an alert.  call, packets and failure are history: the       *)
(* arguments generateGroupedPdfs was called with and its groups, the PDFs it      *)
(* built, and what went wrong.  The review of completed documents records the    *)
(* calls and outcomes of its exports; the behaviours of the pipeline leave them   *)
(* out (NotRecorded), as no property of the pipeline reads them: there an export  *)
(* is the two steps that set and clear the busy flag and the status message       *)
NoExport == [documents |-> <<>>, pagesToInclude |-> <<>>, groups |-> <<>>, groupingMode |-> ""]
NoDownload ==
    [recorded |-> TRUE, name |-> "", files |-> <<>>, alert |-> "",
     call |-> NoExport, packets |-> <<>>, failure |-> NoFailure]
NotRecorded == [NoDownload EXCEPT !.recorded = FALSE]
Recording == downloaded.recorded
ZipOf(call, pdfs, failure) ==
    [recorded |-> TRUE,
     name |-> "SignaturePack_" \o call.groupingMode \o "_",
     files |-> pdfs,
     alert |-> "",
     call |-> call,
     packets |-> Packets(call.documents, call.groups),
     failure |-> failure]
FailedExport(call, failure) ==
    [NoDownload EXCEPT !.alert = "Failed to generate ZIP pack",
                       !.call = call,
                       !.failure = failure]

(* a step that is not the end of an export shows neither a download nor the alert *)
NothingDownloaded ==
    /\ downloaded' = IF Recording THEN NoDownload ELSE NotRecorded
    /\ UNCHANGED exportCall

----------------------------------------------------------------------------
(* The locals of one processSingleDocument call *)

NoDoc == [id |-> 0, name |-> "", file |-> ""]

IdleRun ==
    [pc |-> "idle", doc |-> NoDoc, pageCount |-> 0,
     numPages |-> 0, batchStart |-> 0, batch |-> <<>>, candidatePages |-> <<>>, scanned |-> 0,
     signaturePages |-> <<>>, chunkStart |-> 0, processedCount |-> 0,
     tasks |-> <<>>, extractedPages |-> <<>>]

(* a call that has returned: its locals are gone *)
DoneRun == [IdleRun EXCEPT !.pc = "done"]

(* one page of a scan batch: its promise, and what it resolved with *)
ScanPending == [settled |-> FALSE, value |-> Null]
ScanSettled(v) == [settled |-> TRUE, value |-> v]

(* one candidate page of a chunk: where its callback stands, and what it returned *)
TaskRendering(pageIndex) == [pageIndex |-> pageIndex, stage |-> "render", records |-> <<>>]
TaskExtracting(t) == [t EXCEPT !.stage = "oracle"]
TaskDone(t, records) == [t EXCEPT !.stage = "done", !.records = records]

(* what the history keeps of a run *)
NotSeen == [render |-> "none", resp |-> [kind |-> "none"], metadata |-> [threw |-> FALSE]]
NoHistory == [file |-> "", load |-> "none", scan |-> <<>>, calls |-> <<>>, pages |-> <<>>]

----------------------------------------------------------------------------
(* Continuations: the synchronous code that runs when an await resumes.    *)
(* Each yields the run's locals and the documents state it leaves behind.  *)

Leaves(r, docs) == [run |-> r, docs |-> docs]

(* for (pageNum = i; pageNum <= end; pageNum++) batchPromises.push(...) *)
StartBatch(r, i) ==
    LET end == Min(i + BATCH_SIZE - 1, r.numPages)
    IN  [r EXCEPT !.pc = "scanBatch", !.batchStart = i,
                  !.batch = [k \in 1..(end - i + 1) |-> ScanPending]]

(* findSignaturePages: the scanner's indices as the pipeline reads them (sigPage.pageIndex) *)
findSignaturePages(indices) == [k \in 1..Len(indices) |-> [pageIndex |-> indices[k]]]

(* a faulty variant of StartChunk: every remaining candidate page is launched at once *)
StartChunkUnbounded(r, i) ==
    LET last == Len(r.signaturePages)
    IN  [r EXCEPT !.pc = "chunk", !.chunkStart = i,
                  !.tasks = [k \in 1..(last - i) |-> TaskRendering(r.signaturePages[i + k].pageIndex)]]

(* const chunk = signaturePages.slice(i, i + 5); chunk.map(async (sigPage) => ...) *)
StartChunk(r, i) ==
    LET last == Min(i + CONCURRENT_AI_REQUESTS_PER_DOC, Len(r.signaturePages))
    IN  [r EXCEPT !.pc = "chunk", !.chunkStart = i,
                  !.tasks = [k \in 1..(last - i) |-> TaskRendering(r.signaturePages[i + k].pageIndex)]]

(* the final setDocuments of the try block *)
Complete(r, docs) ==
    Leaves(DoneRun, MarkCompleted(docs, r.doc.id, r.pageCount, r.extractedPages))

(* a faulty variant of Caught: the error is swallowed and the document left as it is *)
CaughtSilently(r, docs) == Leaves(DoneRun, docs)

(* catch (error) { setDocuments(... status: 'error') } *)
Caught(r, docs) == Leaves(DoneRun, MarkError(docs, r.doc.id))

(* after await findSignaturePages(...): lines 150-160 *)
AfterScan(r, docs) ==
    LET sigPages == findSignaturePages(SortAsc(r.candidatePages))
        r1 == [r EXCEPT !.signaturePages = sigPages, !.batch = <<>>,
                        !.processedCount = 0, !.extractedPages = <<>>]
    IN  IF Len(sigPages) = 0
        THEN Complete(r1, SetProgress(docs, r.doc.id, 100))
        ELSE Leaves(StartChunk(r1, 0), docs)

(* a faulty variant of AfterBatch: processedCount += BATCH_SIZE, whatever the batch held *)
AfterBatchFullCount(r, docs) ==
    LET found == SelectSeq([k \in 1..Len(r.batch) |-> r.batch[k].value], LAMBDA v : v # Null)
        scanned == r.scanned + BATCH_SIZE
        r1 == [r EXCEPT !.candidatePages = r.candidatePages \o found, !.scanned = scanned]
        docs1 == SetProgress(docs, r.doc.id, Round(scanned * 50, r.numPages))
        next == r.batchStart + BATCH_SIZE
        out == IF next <= r.numPages
               THEN Leaves(StartBatch(r1, next), docs1)
               ELSE AfterScan(r1, docs1)
    IN  [run |-> out.run, docs |-> out.docs, onProgress |-> <<scanned, r.numPages>>]

(* after await Promise.all(batchPromises): pdfService.ts lines 112-125; onProgress is *)
(* the call of the progress callback, (processedCount, numPages)                      *)
AfterBatch(r, docs) ==
    LET found == SelectSeq([k \in 1..Len(r.batch) |-> r.batch[k].value], LAMBDA v : v # Null)
        scanned == r.scanned + Len(r.batch)
        r1 == [r EXCEPT !.candidatePages = r.candidatePages \o found, !.scanned = scanned]
        docs1 == SetProgress(docs, r.doc.id, Round(scanned * 50, r.numPages))
        next == r.batchStart + BATCH_SIZE
        out == IF next <= r.numPages
               THEN Leaves(StartBatch(r1, next), docs1)
               ELSE AfterScan(r1, docs1)
    IN  [run |-> out.run, docs |-> out.docs, onProgress |-> <<scanned, r.numPages>>]

(* a faulty variant of AfterChunk: the extraction phase reports its own share only *)
AfterChunkNoOffset(r, docs) ==
    LET processed == r.processedCount + Len(r.tasks)
        aiProgress == Round(processed * 50, Len(r.signaturePages))
        r1 == [r EXCEPT !.processedCount = processed,
                        !.extractedPages = r.extractedPages \o
                            Flat([k \in 1..Len(r.tasks) |-> r.tasks[k].records]),
                        !.tasks = <<>>]
        docs1 == SetProgress(docs, r.doc.id, aiProgress)
        next == r.chunkStart + CONCURRENT_AI_REQUESTS_PER_DOC
    IN  IF next < Len(r.signaturePages)
        THEN Leaves(StartChunk(r1, next), docs1)
        ELSE Complete(r1, docs1)

(* after await Promise.all(chunkPromises): lines 210-219, then the next chunk or line 222 *)
AfterChunk(r, docs) ==
    LET processed == r.processedCount + Len(r.tasks)
        aiProgress == 50 + Round(processed * 50, Len(r.signaturePages))
        r1 == [r EXCEPT !.processedCount = processed,
                        !.extractedPages = r.extractedPages \o
                            Flat([k \in 1..Len(r.tasks) |-> r.tasks[k].records]),
                        !.tasks = <<>>]
        docs1 == SetProgress(docs, r.doc.id, aiProgress)
        next == r.chunkStart + CONCURRENT_AI_REQUESTS_PER_DOC
    IN  IF next < Len(r.signaturePages)
        THEN Leaves(StartChunk(r1, next), docs1)
        ELSE Complete(r1, docs1)

(* a faulty variant of BatchSettles: a page that yields no index rejects its promise, *)
(* so that Promise.all rejects and the scan is abandoned                             *)
BatchSettlesOrAborts(r, docs, k, value) ==
    LET r1 == [r EXCEPT !.batch[k] = ScanSettled(value)]
    IN  IF value = Null
        THEN Caught(r, docs)
        ELSE IF \A j \in 1..Len(r1.batch) : r1.batch[j].settled
             THEN AfterBatch(r1, docs)
             ELSE Leaves(r1, docs)

(* one page's promise of the batch settles; the last one resumes the scan *)
BatchSettles(r, docs, k, value) ==
    LET r1 == [r EXCEPT !.batch[k] = ScanSettled(value)]
    IN  IF \A j \in 1..Len(r1.batch) : r1.batch[j].settled
        THEN AfterBatch(r1, docs)
        ELSE Leaves(r1, docs)

(* a faulty variant of TaskSettles: the callback pushes its records on the list *)
(* of the document as it returns, instead of returning them to Promise.all      *)
TaskSettlesPushing(r, docs, k, records) ==
    LET r1 == [r EXCEPT !.tasks[k] = TaskDone(r.tasks[k], <<>>),
                        !.extractedPages = r.extractedPages \o records]
    IN  IF \A j \in 1..Len(r1.tasks) : r1.tasks[j].stage = "done"
        THEN AfterChunk(r1, docs)
        ELSE Leaves(r1, docs)

(* one page's callback of the chunk returns; the last one resumes the pipeline *)
TaskSettles(r, docs, k, records) ==
    LET r1 == [r EXCEPT !.tasks[k] = TaskDone(r.tasks[k], records)]
    IN  IF \A j \in 1..Len(r1.tasks) : r1.tasks[j].stage = "done"
        THEN AfterChunk(r1, docs)
        ELSE Leaves(r1, docs)

(* a faulty variant of RenderFailed: a page's rendering failure reaches the outer catch *)
RenderFailedAborts(r, docs, k) == Caught(r, docs)

(* renderPageToImage throws inside the callback: catch (err) { return [] } *)
RenderFailed(r, docs, k) == TaskSettles(r, docs, k, <<>>)

(* a step of the run of document id ends leaving c; processAllDocuments resumes *)
(* (lines 129-130) once every run of its Promise.all has returned               *)
(* a faulty variant of Step: the request is over with the first run that returns *)
(* (Promise.race in place of Promise.all)                                        *)
StepFirstDone(id, c) ==
    /\ run' = [run EXCEPT ![id] = c.run]
    /\ documents' = c.docs
    /\ RenderedDocuments(c.docs)
    /\ IF id \in request /\ c.run.pc = "done"
       THEN /\ isProcessing' = FALSE
            /\ currentStatus' = ""
            /\ request' = {}
       ELSE UNCHANGED <<isProcessing, currentStatus, request>>
    /\ NothingDownloaded
    /\ UNCHANGED <<apiKey, exporting, nextId, edits>>

Step(id, c) ==
    /\ run' = [run EXCEPT ![id] = c.run]
    /\ documents' = c.docs
    /\ RenderedDocuments(c.docs)
    /\ IF \A j \in request : (IF j = id THEN c.run ELSE run[j]).pc = "done"
       THEN /\ isProcessing' = FALSE
            /\ currentStatus' = ""
            /\ request' = {}
       ELSE UNCHANGED <<isProcessing, currentStatus, request>>
    /\ NothingDownloaded
    /\ UNCHANGED <<apiKey, exporting, nextId, edits>>

----------------------------------------------------------------------------
(* User events *)

(* handleFileUpload(files): files is a non-empty FileList *)
HandleFileUpload(files) ==
    /\ Len(files) > 0
    /\ nextId + Len(files) - 1 <= MaxDocs
    /\ IF apiKey
       THEN /\ documents' = documents \o
                    [k \in 1..Len(files) |-> NewDocument(nextId + k - 1, files[k])]
            /\ nextId' = nextId + Len(files)
            /\ RenderedDocuments(documents')
       ELSE UNCHANGED <<documents, nextId, groupingMode, displayedPages>>
    /\ NothingDownloaded
    /\ UNCHANGED <<apiKey, isProcessing, currentStatus, exporting, request, run, observed, edits>>

(* a faulty variant of HandleProcessPending: the Extract button is not disabled *)
(* while the application is busy                                              *)
HandleProcessPendingEnabled ==
    LET pendingDocs == PendingDocs(documents)
        ids == {pendingDocs[k].id : k \in 1..Len(pendingDocs)}
    IN  /\ \E k \in 1..Len(documents) : documents[k].status = "pending"
        /\ Len(pendingDocs) > 0
        /\ isProcessing' = TRUE
        /\ currentStatus' = "Processing " \o ToString(Len(pendingDocs)) \o " documents..."
        /\ request' = ids
        /\ documents' = LaunchAll(documents, pendingDocs)
        /\ RenderedDocuments(documents')
        /\ run' = [id \in DocIds |->
                      IF id \in ids
                      THEN [IdleRun EXCEPT !.pc = "getPageCount",
                                           !.doc = [id |-> id,
                                                    name |-> DocOf(documents, id).name,
                                                    file |-> DocOf(documents, id).file]]
                      ELSE run[id]]
        /\ observed' = [id \in DocIds |->
                      IF id \in ids
                      THEN [file |-> DocOf(documents, id).file,
                            load |-> "none",
                            calls |-> <<>>,
                            scan |-> [p \in 1..NumPages(DocOf(documents, id).file) |-> "none"],
                            pages |-> [p \in 1..NumPages(DocOf(documents, id).file) |-> NotSeen]]
                      ELSE observed[id]]
        /\ NothingDownloaded
        /\ UNCHANGED <<apiKey, exporting, nextId, edits>>

(* the Extract button: handleProcessPending -> processAllDocuments, and each      *)
(* processSingleDocument up to its first await                                    *)
HandleProcessPending ==
    LET pendingDocs == PendingDocs(documents)
        ids == {pendingDocs[k].id : k \in 1..Len(pendingDocs)}
    IN  /\ ~isProcessing
        /\ \E k \in 1..Len(documents) : documents[k].status = "pending"
        /\ Len(pendingDocs) > 0
        /\ isProcessing' = TRUE
        /\ currentStatus' = "Processing " \o ToString(Len(pendingDocs)) \o " documents..."
        /\ request' = ids
        /\ documents' = LaunchAll(documents, pendingDocs)
        /\ RenderedDocuments(documents')
        /\ run' = [id \in DocIds |->
                      IF id \in ids
                      THEN [IdleRun EXCEPT !.pc = "getPageCount",
                                           !.doc = [id |-> id,
                                                    name |-> DocOf(documents, id).name,
                                                    file |-> DocOf(documents, id).file]]
                      ELSE run[id]]
        /\ observed' = [id \in DocIds |->
                      IF id \in ids
                      THEN [file |-> DocOf(documents, id).file,
                            load |-> "none",
                            calls |-> <<>>,
                            scan |-> [p \in 1..NumPages(DocOf(documents, id).file) |-> "none"],
                            pages |-> [p \in 1..NumPages(DocOf(documents, id).file) |-> NotSeen]]
                      ELSE observed[id]]
        /\ NothingDownloaded
        /\ UNCHANGED <<apiKey, exporting, nextId, edits>>

(* the X button of a document row *)
RemoveDocument(id) ==
    /\ HasDoc(documents, id)
    /\ documents' = WithoutDoc(documents, id)
    /\ RenderedDocuments(documents')
    /\ NothingDownloaded
    /\ UNCHANGED <<apiKey, isProcessing, currentStatus, exporting, nextId, request, run, observed,
                   edits>>

(* a grouping button: setGroupingMode(mode); setting the mode on display again *)
(* renders nothing                                                             *)
SetGroupingMode(mode) ==
    /\ mode # groupingMode
    /\ RenderedMode(mode)
    /\ NothingDownloaded
    /\ UNCHANGED <<apiKey, documents, isProcessing, currentStatus, exporting, nextId, request,
                   run, observed, edits>>

(* a faulty variant of UpdatePage: the value goes into every record of the *)
(* document that holds the record                                          *)
UpdatePageOfDocument(docs, pageId, field, value) ==
    [k \in 1..Len(docs) |->
        [docs[k] EXCEPT !.extractedPages =
            [i \in 1..Len(docs[k].extractedPages) |->
                IF \E j \in 1..Len(docs[k].extractedPages) : docs[k].extractedPages[j].id = pageId
                THEN [docs[k].extractedPages[i] EXCEPT ![field] = value]
                ELSE docs[k].extractedPages[i]]]]

(* prev.map(doc => ({ ...doc, extractedPages:                                    *)
(*     doc.extractedPages.map(p => p.id === pageId ? { ...p, [field]: value } : p) })) *)
UpdatePage(docs, pageId, field, value) ==
    [k \in 1..Len(docs) |->
        [docs[k] EXCEPT !.extractedPages =
            [i \in 1..Len(docs[k].extractedPages) |->
                IF docs[k].extractedPages[i].id = pageId
                THEN [docs[k].extractedPages[i] EXCEPT ![field] = value]
                ELSE docs[k].extractedPages[i]]]]

(* prev.map(doc => ({ ...doc, extractedPages: doc.extractedPages.filter(p => p.id !== pageId) })) *)
WithoutPage(docs, pageId) ==
    [k \in 1..Len(docs) |->
        [docs[k] EXCEPT !.extractedPages = SelectSeq(@, LAMBDA p : p.id # pageId)]]

(* an edit on the card of a displayed record leaves docs *)
Edited(docs) ==
    /\ edits' = edits + 1
    /\ documents' = docs
    /\ RenderedDocuments(docs)
    /\ NothingDownloaded
    /\ UNCHANGED <<apiKey, isProcessing, currentStatus, exporting, nextId, request, run, observed>>

(* a faulty variant of HandleUpdateCopies: a record that reaches 0 leaves the list *)
HandleUpdateCopiesDropping(page, newCount) ==
    /\ newCount \in {IF page.copies - 1 > 0 THEN page.copies - 1 ELSE 0, page.copies + 1}
    /\ IF newCount = 0
       THEN Edited(WithoutPage(documents, page.id))
       ELSE Edited(UpdatePage(documents, page.id, "copies", newCount))

(* the - and + buttons of a card: Math.max(0, page.copies - 1), page.copies + 1 *)
HandleUpdateCopies(page, newCount) ==
    /\ newCount \in {IF page.copies - 1 > 0 THEN page.copies - 1 ELSE 0, page.copies + 1}
    /\ Edited(UpdatePage(documents, page.id, "copies", newCount))

(* the party, signatory and capacity inputs of a card: onChange, so the value is a new one *)
HandleUpdateParty(page, newParty) ==
    /\ newParty # page.partyName
    /\ Edited(UpdatePage(documents, page.id, "partyName", newParty))

HandleUpdateSignatory(page, newSignatory) ==
    /\ newSignatory # page.signatoryName
    /\ Edited(UpdatePage(documents, page.id, "signatoryName", newSignatory))

HandleUpdateCapacity(page, newCapacity) ==
    /\ newCapacity # page.capacity
    /\ Edited(UpdatePage(documents, page.id, "capacity", newCapacity))

(* the delete button of a card *)
HandleDeletePage(page) ==
    Edited(WithoutPage(documents, page.id))

(* the Download button: handleDownloadPack up to its first await, which is inside *)
(* generateGroupedPdfs after the loop that groups the records                     *)
HandleDownloadPack ==
    /\ ~isProcessing
    /\ Len(displayedPages) # 0
    /\ isProcessing' = TRUE
    /\ currentStatus' = "Generating ZIP Pack..."
    /\ exporting' = TRUE
    /\ exportCall' = IF Recording
                     THEN [documents |-> documents,
                           pagesToInclude |-> displayedPages,
                           groups |-> GroupsOf(displayedPages, groupingMode),
                           groupingMode |-> groupingMode]
                     ELSE NoExport
    /\ downloaded' = IF Recording THEN NoDownload ELSE NotRecorded
    /\ UNCHANGED <<apiKey, documents, nextId, request, run, observed,
                   groupingMode, displayedPages, edits>>

(* a faulty variant of DownloadSettled: the groups are formed when the awaits have *)
(* returned, from the documents, the records and the mode on screen by then       *)
DownloadSettledLate(failure) ==
    LET groups == GroupsOf(displayedPages, groupingMode)
        pdfs == AssemblePdfs(documents, groups, NoFailure)
    IN  /\ exporting
        /\ failure \in ExportFailures(exportCall.groups)
        /\ isProcessing' = FALSE
        /\ currentStatus' = ""
        /\ exporting' = FALSE
        /\ exportCall' = NoExport
        /\ downloaded' = IF ~Recording THEN NotRecorded
                         ELSE IF pdfs.threw
                         THEN FailedExport(exportCall, NoFailure)
                         ELSE [ZipOf(exportCall, pdfs.value, NoFailure) EXCEPT
                                  !.name = "SignaturePack_" \o groupingMode \o "_"]
        /\ UNCHANGED <<apiKey, documents, nextId, request, run, observed,
                       groupingMode, displayedPages, edits>>

(* the rest of handleDownloadPack: generateGroupedPdfs goes through the groups and *)
(* returns or throws at failure, zip.generateAsync resolves or rejects, the ZIP is *)
(* handed to the browser, and the finally block runs                               *)
DownloadSettled(failure) ==
    LET pdfs == AssemblePdfs(exportCall.documents, exportCall.groups, failure)
    IN  /\ exporting
        /\ failure \in ExportFailures(exportCall.groups)
        /\ isProcessing' = FALSE
        /\ currentStatus' = ""
        /\ exporting' = FALSE
        /\ exportCall' = NoExport
        /\ downloaded' = IF ~Recording THEN NotRecorded
                         ELSE IF pdfs.threw \/ failure.kind = "zip"
                         THEN FailedExport(exportCall, failure)
                         ELSE ZipOf(exportCall, pdfs.value, failure)
        /\ UNCHANGED <<apiKey, documents, nextId, request, run, observed,
                       groupingMode, displayedPages, edits>>

ExportSettles == \E failure \in ExportFailures(exportCall.groups) : DownloadSettled(failure)

----------------------------------------------------------------------------
(* Steps of processSingleDocument: the settling of its external calls *)

(* await getPageCount(doc.file) *)
GetPageCountSettled(id, ok) ==
    LET r == run[id]
    IN  /\ r.pc = "getPageCount"
        /\ IF ok
           THEN Step(id, Leaves([r EXCEPT !.pc = "scanLoad", !.pageCount = NumPages(r.doc.file)],
                                documents))
           ELSE Step(id, Caught(r, documents))
        /\ observed' = [observed EXCEPT ![id].load = IF ok THEN "counted" ELSE "countFailed"]

(* the scanner's own load of the file: readFileAsArrayBuffer, getDocument *)
ScanLoaded(id, ok) ==
    LET r == run[id]
        r1 == [r EXCEPT !.numPages = NumPages(r.doc.file), !.candidatePages = <<>>, !.scanned = 0]
    IN  /\ r.pc = "scanLoad"
        /\ IF ok
           THEN IF 1 <= r1.numPages
                THEN Step(id, Leaves(StartBatch(r1, 1), documents))
                ELSE Step(id, AfterScan(r1, documents))
           ELSE Step(id, Caught(r, documents))
        /\ observed' = [observed EXCEPT ![id].load = IF ok THEN "loaded" ELSE "scanFailed"]

(* one page of the batch: getPage / getTextContent fail (caught: null), or the text is tested *)
ScanPageSettled(id, k, ok) ==
    LET r == run[id]
        pageNum == r.batchStart + k - 1
        value == IF ok /\ TextMatches(r.doc.file, pageNum) THEN pageNum - 1 ELSE Null
        c == BatchSettles(r, documents, k, value)
    IN  /\ r.pc = "scanBatch"
        /\ k \in 1..Len(r.batch)
        /\ ~r.batch[k].settled
        /\ ok \/ ReadCanFail(r.doc.file, pageNum)
        /\ Step(id, c)
        /\ observed' = [observed EXCEPT
               ![id].scan[pageNum] = IF ok THEN "read" ELSE "failed",
               ![id].calls = IF "onProgress" \in DOMAIN c THEN Append(@, c.onProgress) ELSE @]

(* renderPageToImage settles: on success the callback goes on to the oracle call *)
RenderSettled(id, k, ok) ==
    LET r == run[id]
    IN  /\ r.pc = "chunk"
        /\ k \in 1..Len(r.tasks)
        /\ r.tasks[k].stage = "render"
        /\ IF ok
           THEN Step(id, Leaves([r EXCEPT !.tasks[k] = TaskExtracting(r.tasks[k])], documents))
           ELSE Step(id, RenderFailed(r, documents, k))
        /\ observed' = [observed EXCEPT
               ![id].pages[r.tasks[k].pageIndex + 1].render = IF ok THEN "ok" ELSE "failed"]

(* ai.models.generateContent settles with resp *)
OracleSettled(id, k, resp) ==
    LET r == run[id]
        pageIndex == r.tasks[k].pageIndex
    IN  /\ r.pc = "chunk"
        /\ k \in 1..Len(r.tasks)
        /\ r.tasks[k].stage = "oracle"
        /\ resp \in OracleResponses(r.doc.file, pageIndex)
        /\ Step(id, TaskSettles(r, documents, k,
                    PageRecords(r.doc, pageIndex, RenderedImage(r.doc.file, pageIndex), resp)))
        /\ observed' = [observed EXCEPT ![id].pages[pageIndex + 1].resp = resp,
                                        ![id].pages[pageIndex + 1].metadata =
                                            extractSignatureMetadata(resp)]

RunStep(id) ==
    \/ \E ok \in BOOLEAN : GetPageCountSettled(id, ok)
    \/ \E ok \in BOOLEAN : ScanLoaded(id, ok)
    \/ \E k \in 1..Len(run[id].batch), ok \in BOOLEAN : ScanPageSettled(id, k, ok)
    \/ \E k \in 1..Len(run[id].tasks), ok \in BOOLEAN : RenderSettled(id, k, ok)
    \/ \E k \in 1..Len(run[id].tasks) :
          \E resp \in OracleResponses(run[id].doc.file, run[id].tasks[k].pageIndex) :
              OracleSettled(id, k, resp)

----------------------------------------------------------------------------
(* Specifications *)

UploadLists ==
    UNION {[1..n -> SmallFiles] : n \in 1..MaxDocs}

Init ==
    /\ apiKey \in BOOLEAN
    /\ documents = <<>>
    /\ isProcessing = FALSE
    /\ currentStatus = ""
    /\ exporting = FALSE
    /\ nextId = 1
    /\ request = {}
    /\ run = [id \in DocIds |-> IdleRun]
    /\ observed = [id \in DocIds |-> NoHistory]
    /\ groupingMode = "agreement"
    /\ displayedPages = <<>>
    /\ edits = 0
    /\ exportCall = NoExport
    /\ downloaded = NotRecorded

Next ==
    \/ \E files \in UploadLists : HandleFileUpload(files)
    \/ HandleProcessPending
    \/ \E id \in DocIds : RemoveDocument(id)
    \/ HandleDownloadPack
    \/ ExportSettles
    \/ \E id \in DocIds : RunStep(id)

Spec == Init /\ [][Next]_vars

(* One long document, already uploaded: the pipeline alone, page by page *)
InitPipeline ==
    /\ apiKey = TRUE
    /\ documents = <<NewDocument(1, LongFile)>>
    /\ isProcessing = FALSE
    /\ currentStatus = ""
    /\ exporting = FALSE
    /\ nextId = 2
    /\ request = {}
    /\ run = [id \in DocIds |-> IdleRun]
    /\ observed = [id \in DocIds |-> NoHistory]
    /\ groupingMode = "agreement"
    /\ displayedPages = <<>>
    /\ edits = 0
    /\ exportCall = NoExport
    /\ downloaded = NotRecorded

NextPipeline ==
    \/ HandleProcessPending
    \/ \E id \in DocIds : RunStep(id)

SpecPipeline == InitPipeline /\ [][NextPipeline]_vars

(* One document of more than BATCH_SIZE pages, already uploaded: the scan, batch by batch *)
InitScan ==
    /\ apiKey = TRUE
    /\ documents = <<NewDocument(1, ScanFile)>>
    /\ isProcessing = FALSE
    /\ currentStatus = ""
    /\ exporting = FALSE
    /\ nextId = 2
    /\ request = {}
    /\ run = [id \in DocIds |-> IdleRun]
    /\ observed = [id \in DocIds |-> NoHistory]
    /\ groupingMode = "agreement"
    /\ displayedPages = <<>>
    /\ edits = 0
    /\ exportCall = NoExport
    /\ downloaded = NotRecorded

SpecScan == InitScan /\ [][NextPipeline]_vars

(* The review of extracted records: every document has gone through the pipeline, *)
(* each page answered by the oracle with the signing blocks it shows              *)
ReviewAnswers(k) ==
    CASE k = 1 -> <<<<BlockBare, BlockBeta>>>>
      [] k = 2 -> <<<<BlockFull>>, <<BlockAdam>>, <<BlockBare>>>>
      [] OTHER -> <<<<BlockFull>>>>

ReviewFileOf(k) == IF k = 2 THEN ReviewFile ELSE "SPA.pdf"

ReviewDocument(k) ==
    LET f == ReviewFileOf(k)
        doc == [id |-> k, name |-> f, file |-> f]
        records == Flat([i \in 1..NumPages(f) |->
                           PageRecords(doc, i - 1, RenderedImage(f, i - 1),
                                       SignaturesJson(ReviewAnswers(k)[i]))])
    IN  MarkCompleted(<<NewDocument(k, f)>>, k, NumPages(f), records)[1]

ReviewHistory(k) ==
    LET f == ReviewFileOf(k)
    IN  [file |-> f,
         load |-> "loaded",
         calls |-> <<<<NumPages(f), NumPages(f)>>>>,
         scan |-> [p \in 1..NumPages(f) |-> "read"],
         pages |-> [p \in 1..NumPages(f) |->
                      [render |-> "ok",
                       resp |-> SignaturesJson(ReviewAnswers(k)[p]),
                       metadata |-> extractSignatureMetadata(SignaturesJson(ReviewAnswers(k)[p]))]]]

InitReview ==
    /\ apiKey = TRUE
    /\ documents = <<ReviewDocument(1), ReviewDocument(2), ReviewDocument(3)>>
    /\ isProcessing = FALSE
    /\ currentStatus = ""
    /\ exporting = FALSE
    /\ nextId = Len(documents) + 1
    /\ request = {}
    /\ run = [id \in DocIds |-> IF HasDoc(documents, id) THEN DoneRun ELSE IdleRun]
    /\ observed = [id \in DocIds |->
                      IF HasDoc(documents, id) THEN ReviewHistory(id) ELSE NoHistory]
    /\ groupingMode = "agreement"
    /\ displayedPages = sort(flatMap(documents), "agreement")
    /\ edits = 0
    /\ exportCall = NoExport
    /\ downloaded = NoDownload

NextReview ==
    \/ \E mode \in GroupingModes : SetGroupingMode(mode)
    \/ \E id \in DocIds : RemoveDocument(id)
    \/ /\ edits < MaxEdits
       /\ \E i \in 1..Len(displayedPages) :
             \/ \E newCount \in 0..(displayedPages[i].copies + 1) :
                   HandleUpdateCopies(displayedPages[i], newCount)
             \/ \E newParty \in {"Beta LLC"} :
                   HandleUpdateParty(displayedPages[i], newParty)
             \/ \E newSignatory \in {"Adam Jones", ""} :
                   HandleUpdateSignatory(displayedPages[i], newSignatory)
             \/ \E newCapacity \in {"CFO"} :
                   HandleUpdateCapacity(displayedPages[i], newCapacity)
             \/ HandleDeletePage(displayedPages[i])

SpecReview == InitReview /\ [][NextReview]_vars

(* The export of the reviewed records: the user edits, switches the grouping and *)
(* downloads, and leaves the application alone while it shows that it is busy    *)
NextExport ==
    \/ /\ ~isProcessing
       /\ \E mode \in GroupingModes : SetGroupingMode(mode)
    \/ /\ ~isProcessing
       /\ edits < MaxEdits
       /\ \E i \in 1..Len(displayedPages) :
             \/ \E newCount \in 0..(displayedPages[i].copies + 1) :
                   HandleUpdateCopies(displayedPages[i], newCount)
             \/ \E newParty \in {"Beta LLC "} :
                   HandleUpdateParty(displayedPages[i], newParty)
             \/ \E newSignatory \in {"Zzzz Ahmed", "Unknown Signatory"} :
                   HandleUpdateSignatory(displayedPages[i], newSignatory)
    \/ HandleDownloadPack
    \/ ExportSettles

SpecExport == InitReview /\ [][NextExport]_vars

(* The packets of the reviewed records: the user sets copy counters, switches the *)
(* grouping and downloads, and leaves the application alone while it is busy      *)
NextPackets ==
    \/ /\ ~isProcessing
       /\ \E mode \in GroupingModes : SetGroupingMode(mode)
    \/ /\ ~isProcessing
       /\ edits < MaxCounts
       /\ \E i \in 1..Len(displayedPages) :
             \E newCount \in 0..(displayedPages[i].copies + 1) :
                 HandleUpdateCopies(displayedPages[i], newCount)
    \/ HandleDownloadPack
    \/ ExportSettles

SpecPackets == InitReview /\ [][NextPackets]_vars

(* The copy counters of the reviewed records: the - and + buttons alone *)
NextCopies ==
    /\ edits < MaxClicks
    /\ \E i \in 1..Len(displayedPages) :
          \E newCount \in 0..(displayedPages[i].copies + 1) :
              HandleUpdateCopies(displayedPages[i], newCount)

SpecCopies == InitReview /\ [][NextCopies]_vars

(* One reviewed document and one document still to be extracted: the user works *)
(* on the records at hand while the pipeline runs on the other document         *)
InitLifecycle ==
    /\ apiKey = TRUE
    /\ documents = <<ReviewDocument(3), NewDocument(2, ReviewFile)>>
    /\ isProcessing = FALSE
    /\ currentStatus = ""
    /\ exporting = FALSE
    /\ nextId = 4
    /\ request = {}
    /\ run = [id \in DocIds |-> IF id = 3 THEN DoneRun ELSE IdleRun]
    /\ observed = [id \in DocIds |-> IF id = 3 THEN ReviewHistory(3) ELSE NoHistory]
    /\ groupingMode = "agreement"
    /\ displayedPages = sort(flatMap(documents), "agreement")
    /\ edits = 0
    /\ exportCall = NoExport
    /\ downloaded = NotRecorded

NextLifecycle ==
    \/ HandleProcessPending
    \/ \E id \in DocIds : RunStep(id)
    \/ /\ edits < MaxEdits
       /\ \E i \in 1..Len(displayedPages) :
             \/ \E newCount \in 0..(displayedPages[i].copies + 1) :
                   HandleUpdateCopies(displayedPages[i], newCount)
             \/ \E newParty \in {"Beta LLC"} :
                   HandleUpdateParty(displayedPages[i], newParty)
             \/ \E newSignatory \in {"Adam Jones"} :
                   HandleUpdateSignatory(displayedPages[i], newSignatory)
             \/ \E newCapacity \in {"CFO"} :
                   HandleUpdateCapacity(displayedPages[i], newCapacity)
             \/ HandleDeletePage(displayedPages[i])

SpecLifecycle == InitLifecycle /\ [][NextLifecycle]_vars

(* The export in flight: the grouping buttons, the cards and the document rows stay *)
(* enabled while the ZIP is generated.  The user downloads the pack as extracted,   *)
(* under any grouping, and works on it only while the ZIP is generated              *)
NextInFlight ==
    \/ /\ exporting
       /\ \E mode \in GroupingModes : SetGroupingMode(mode)
    \/ /\ exporting
       /\ \E id \in DocIds : RemoveDocument(id)
    \/ /\ exporting
       /\ edits < MaxEdits
       /\ \E i \in 1..Len(displayedPages) :
             \/ \E newCount \in 0..(displayedPages[i].copies + 1) :
                   HandleUpdateCopies(displayedPages[i], newCount)
             \/ \E newParty \in {"Beta LLC"} :
                   HandleUpdateParty(displayedPages[i], newParty)
             \/ HandleDeletePage(displayedPages[i])
    \/ /\ edits = 0
       /\ Len(documents) = nextId - 1
       /\ HandleDownloadPack
    \/ ExportSettles

SpecInFlight == InitReview /\ [][NextInFlight]_vars

(* The file of terms, already uploaded: its scan alone, page text by page text *)
InitClassifier ==
    /\ apiKey = TRUE
    /\ documents = <<NewDocument(1, TermsFile)>>
    /\ isProcessing = FALSE
    /\ currentStatus = ""
    /\ exporting = FALSE
    /\ nextId = 2
    /\ request = {}
    /\ run = [id \in DocIds |-> IdleRun]
    /\ observed = [id \in DocIds |-> NoHistory]
    /\ groupingMode = "agreement"
    /\ displayedPages = <<>>
    /\ edits = 0
    /\ exportCall = NoExport
    /\ downloaded = NotRecorded

NextClassifier ==
    \/ HandleProcessPending
    \/ \E id \in DocIds :
          \/ \E ok \in BOOLEAN : GetPageCountSettled(id, ok)
          \/ \E ok \in BOOLEAN : ScanLoaded(id, ok)
          \/ \E k \in 1..Len(run[id].batch), ok \in BOOLEAN : ScanPageSettled(id, k, ok)

SpecClassifier == InitClassifier /\ [][NextClassifier]_vars

(* The names of the output files: the user types party names with characters that *)
(* file names cannot hold into the first cards, groups by any mode and downloads   *)
PartyNamesTyped ==
    {"", " ", ":?", "Acme Corp :", "a/b\\c", "Annex.PDF", " x.pdf ", ".pdf", "<*>.pdf",
     "Beta|LLC%", "\"Gamma\" <SA>"}

NextNames ==
    \/ /\ ~isProcessing
       /\ \E mode \in GroupingModes : SetGroupingMode(mode)
    \/ /\ ~isProcessing
       /\ edits < MaxEdits
       /\ \E i \in 1..Min(2, Len(displayedPages)) :
             \E newParty \in PartyNamesTyped : HandleUpdateParty(displayedPages[i], newParty)
    \/ HandleDownloadPack
    \/ ExportSettles

SpecNames == InitReview /\ [][NextNames]_vars

(* The headers of the review: the user types signatory names into the cards and *)
(* switches the grouping                                                        *)
NextHeaders ==
    \/ \E mode \in GroupingModes : SetGroupingMode(mode)
    \/ /\ edits < MaxRenames
       /\ \E i \in 1..Len(displayedPages) :
             \E newSignatory \in {"Unknown Signatory", "Victor Hale"} :
                 HandleUpdateSignatory(displayedPages[i], newSignatory)

SpecHeaders == InitReview /\ [][NextHeaders]_vars

----------------------------------------------------------------------------
(* The application under fair scheduling: every external call that is in   *)
(* flight eventually returns or throws, so its continuation eventually     *)
(* runs.  User events are under no obligation.                             *)
(*                                                                         *)
(* For the one call of an export this is WF_vars(ExportSettles).  For      *)
(* the calls of the run of document id it is WF_vars(RunStep(id)), which   *)
(* is written out below as                                                 *)
(*     []<>(~ENABLED <<RunStep(id)>>_vars) \/ []<><<RunStep(id)>>_vars     *)
(* with the state predicate Running(id) in the place of the ENABLED        *)
(* formula: a run can take a step exactly when it is between its first     *)
(* await and its return, which is the invariant RunsAreLive.               *)

Running(id) == run[id].pc \notin {"idle", "done"}

RunsAreLive == \A id \in DocIds : Running(id) <=> ENABLED <<RunStep(id)>>_vars

RunFairness(id) == []<>(~Running(id)) \/ []<><<RunStep(id)>>_vars

Fairness == WF_vars(ExportSettles) /\ \A id \in DocIds : RunFairness(id)

SpecLive == Init /\ [][Next]_vars /\ Fairness

----------------------------------------------------------------------------
(* Vocabulary of the properties *)

(* the records of document d that belong to page pageIndex, in list order *)
RecordsOfPage(d, pageIndex) == SelectSeq(d.extractedPages, LAMBDA p : p.pageIndex = pageIndex)

(* the pages the scan of document id returned: text read and matching the pattern *)
ScanCandidates(id) ==
    {p \in DOMAIN observed[id].scan :
        observed[id].scan[p] = "read" /\ TextMatches(observed[id].file, p)}

Seen(id, pageNum) == observed[id].pages[pageNum]

(* the oracle call of that page threw, or answered with text that is no JSON *)
OracleThrew(resp) == resp.kind \in {"reject", "empty", "unparsable"}

(* the oracle answered with a list of signing blocks *)
OracleListed(resp) == resp.kind = "json" /\ "signatures" \in DOMAIN resp.value

(* the oracle answered with JSON that holds no list of signing blocks *)
OracleMalformed(resp) == resp.kind = "json" /\ "signatures" \notin DOMAIN resp.value

----------------------------------------------------------------------------
(* C1: a document's status changes only from pending to processing and from *)
(* processing to completed or to error; completed and error are never left, *)
(* nothing returns to pending or processing, and pending never becomes      *)
(* completed directly, whatever the user and the pipelines do in between.   *)
StatusChanges == {<<"pending", "processing">>, <<"processing", "completed">>, <<"processing", "error">>}

C1_StatusMachine ==
    [][\A id \in DocIds :
          (HasDoc(documents, id) /\ HasDoc(documents', id)) =>
              \/ StatusOf(documents', id) = StatusOf(documents, id)
              \/ <<StatusOf(documents, id), StatusOf(documents', id)>> \in StatusChanges]_vars

(* two documents went through the pipeline: one completed, one failed in its scan *)
C1_Witness ==
    \E i, j \in DocIds :
        /\ StatusOf(documents, i) = "completed"
        /\ StatusOf(documents, j) = "error"
        /\ observed[j].load = "scanFailed"

----------------------------------------------------------------------------
(* C2: a document that is processing does not stay processing for ever: as  *)
(* long as every external call in flight returns or throws, it becomes      *)
(* completed or error, whichever of the page count, the scan, the renders   *)
(* and the oracle calls fail.  (A document the user removes meanwhile has   *)
(* left the document set and has no status any more.)                       *)
C2_Terminates ==
    \A id \in DocIds :
        (StatusOf(documents, id) = "processing")
            ~> (StatusOf(documents, id) \in {"completed", "error", "absent"})

(* documents that were processing ended: one completed although its oracle *)
(* call was rejected, one in error because its page count failed           *)
C2_Witness ==
    \E i, j \in DocIds :
        /\ StatusOf(documents, i) = "completed"
        /\ \E p \in DOMAIN observed[i].pages : Seen(i, p).resp.kind = "reject"
        /\ StatusOf(documents, j) = "error"
        /\ observed[j].load = "countFailed"

----------------------------------------------------------------------------
(* The scenario of C3: document id completed; its scan returned exactly     *)
(* five candidate pages, each of which rendered; the oracle call threw for  *)
(* exactly one of them and listed exactly one signing block for each other. *)
FiveCandidatesOneThrows(id) ==
    /\ StatusOf(documents, id) = "completed"
    /\ Cardinality(ScanCandidates(id)) = 5
    /\ \A p \in ScanCandidates(id) : Seen(id, p).render = "ok"
    /\ Cardinality({p \in ScanCandidates(id) : OracleThrew(Seen(id, p).resp)}) = 1
    /\ \A p \in ScanCandidates(id) :
          \/ OracleThrew(Seen(id, p).resp)
          \/ /\ OracleListed(Seen(id, p).resp)
             /\ Len(Seen(id, p).resp.value.signatures) = 1

(* C3 as the specification states it: in that scenario the completed       *)
(* document holds exactly four extracted records.                          *)
C3_FourRecords ==
    \A id \in DocIds :
        FiveCandidatesOneThrows(id) => Len(DocOf(documents, id).extractedPages) = 4

(* C3, amended: in that scenario the document is completed with exactly     *)
(* five extracted records, one per candidate page: the page whose oracle    *)
(* call threw is represented by the "Unknown Party" / "Signatory"           *)
(* placeholder record, each other page by the record of its signing block.  *)
C3_FiveRecords ==
    \A id \in DocIds :
        FiveCandidatesOneThrows(id) =>
            LET d == DocOf(documents, id)
            IN  /\ d.status = "completed"
                /\ Len(d.extractedPages) = 5
                /\ \A p \in ScanCandidates(id) :
                      LET rs == RecordsOfPage(d, p - 1)
                      IN  /\ Len(rs) = 1
                          /\ OracleThrew(Seen(id, p).resp) =>
                                /\ rs[1].partyName = "Unknown Party"
                                /\ rs[1].capacity = "Signatory"
                                /\ rs[1].signatoryName = ""

(* the scenario happened, the throwing page being the fifth of the chunk *)
C3_Witness ==
    \E id \in DocIds :
        /\ FiveCandidatesOneThrows(id)
        /\ ScanCandidates(id) = 1..5
        /\ OracleThrew(Seen(id, 5).resp)

----------------------------------------------------------------------------
(* C4: in a completed document, every candidate page that rendered and      *)
(* whose oracle call threw, or answered with unparsable or malformed        *)
(* content, has at least one record in the document's record list.         *)
C4_FailedPageRepresented ==
    \A id \in DocIds :
        (HasDoc(documents, id) /\ StatusOf(documents, id) = "completed") =>
            \A p \in ScanCandidates(id) :
                (/\ Seen(id, p).render = "ok"
                 /\ \/ OracleThrew(Seen(id, p).resp)
                    \/ OracleMalformed(Seen(id, p).resp))
                    => Len(RecordsOfPage(DocOf(documents, id), p - 1)) >= 1

----------------------------------------------------------------------------
(* C5: in a completed document, a candidate page for which the oracle       *)
(* listed zero signing blocks has exactly one record, with partyName        *)
(* "Unknown Party", capacity "Signatory", signatoryName "" and copies 1.    *)
C5_PlaceholderForEmptyList ==
    \A id \in DocIds :
        (HasDoc(documents, id) /\ StatusOf(documents, id) = "completed") =>
            \A p \in ScanCandidates(id) :
                Seen(id, p).resp = SignaturesJson(<<>>) =>
                    LET rs == RecordsOfPage(DocOf(documents, id), p - 1)
                    IN  /\ Len(rs) = 1
                        /\ rs[1].partyName = "Unknown Party"
                        /\ rs[1].capacity = "Signatory"
                        /\ rs[1].signatoryName = ""
                        /\ rs[1].copies = 1

(* a document completed after the oracle listed no signing block for its page *)
C5_Witness ==
    \E id \in DocIds :
        /\ StatusOf(documents, id) = "completed"
        /\ \E p \in ScanCandidates(id) : Seen(id, p).resp = SignaturesJson(<<>>)
        /\ Len(DocOf(documents, id).extractedPages) = 1

----------------------------------------------------------------------------
(* C6: in a completed document, a candidate page for which the oracle       *)
(* listed n >= 1 signing blocks has exactly n records, the k-th made from   *)
(* the k-th block: copies 1; the block's party name, or "Unknown Party"     *)
(* when it is missing or empty; the block's capacity, or "Signatory" when   *)
(* it is missing or empty; the block's signatory name, or "" when it is     *)
(* missing.  So no record is created with an empty party name or capacity.  *)
C6_OneRecordPerBlock ==
    \A id \in DocIds :
        (HasDoc(documents, id) /\ StatusOf(documents, id) = "completed") =>
            \A p \in ScanCandidates(id) :
                (OracleListed(Seen(id, p).resp) /\ Len(Seen(id, p).resp.value.signatures) >= 1) =>
                    LET sigs == Seen(id, p).resp.value.signatures
                        rs == RecordsOfPage(DocOf(documents, id), p - 1)
                    IN  /\ Len(rs) = Len(sigs)
                        /\ \A k \in 1..Len(sigs) :
                              /\ rs[k].copies = 1
                              /\ rs[k].pageIndex = p - 1
                              /\ rs[k].partyName =
                                    (IF sigs[k].partyName \in {UNDEF, ""}
                                     THEN "Unknown Party" ELSE sigs[k].partyName)
                              /\ rs[k].capacity =
                                    (IF sigs[k].capacity \in {UNDEF, ""}
                                     THEN "Signatory" ELSE sigs[k].capacity)
                              /\ rs[k].signatoryName =
                                    (IF sigs[k].signatoryName = UNDEF
                                     THEN "" ELSE sigs[k].signatoryName)
                              /\ rs[k].partyName \notin {UNDEF, ""}
                              /\ rs[k].capacity \notin {UNDEF, ""}

(* a completed document holds the records of a page with two blocks, of a  *)
(* page whose block has no party name, and of a page whose block is full   *)
C6_Witness ==
    \E id \in DocIds :
        /\ StatusOf(documents, id) = "completed"
        /\ \E p \in ScanCandidates(id) : Seen(id, p).resp = SignaturesJson(<<BlockBare, BlockBeta>>)
        /\ \E p \in ScanCandidates(id) : Seen(id, p).resp = SignaturesJson(<<BlockPart>>)
        /\ \E p \in ScanCandidates(id) : Seen(id, p).resp = SignaturesJson(<<BlockFull>>)

----------------------------------------------------------------------------
(* C7: extractSignatureMetadata never throws to its caller, whatever the    *)
(* oracle call does; when the call rejects, answers with empty text or      *)
(* answers with text that is no JSON, it returns a result whose signatures  *)
(* list is empty.                                                           *)
C7_AdapterNeverThrows ==
    \A id \in DocIds :
        \A p \in DOMAIN observed[id].pages :
            Seen(id, p).resp.kind # "none" =>
                /\ ~Seen(id, p).metadata.threw
                /\ OracleThrew(Seen(id, p).resp) =>
                      Seen(id, p).metadata.value = [signatures |-> <<>>]

(* the adapter has been called with an empty response text and with text   *)
(* that is no JSON                                                         *)
C7_Witness ==
    /\ \E id \in DocIds : \E p \in DOMAIN observed[id].pages :
          Seen(id, p).resp.kind = "empty"
    /\ \E id \in DocIds : \E p \in DOMAIN observed[id].pages :
          Seen(id, p).resp.kind = "unparsable"

----------------------------------------------------------------------------
(* C8: when the run of a document whose scan succeeded has returned and     *)
(* the rendering of one of its candidate pages failed, the document is      *)
(* completed, not error; the pages whose rendering failed have no record;   *)
(* every other candidate page, of the same chunk and of later chunks, was   *)
(* rendered and passed to the oracle, and has its records in the list       *)
(* whenever the oracle listed signing blocks for it.                        *)
C8_RenderFailureIsolated ==
    \A id \in DocIds :
        (/\ HasDoc(documents, id)
         /\ run[id].pc = "done"
         /\ observed[id].load = "loaded"
         /\ \E q \in ScanCandidates(id) : Seen(id, q).render = "failed") =>
            /\ StatusOf(documents, id) = "completed"
            /\ \A p \in ScanCandidates(id) :
                  LET rs == RecordsOfPage(DocOf(documents, id), p - 1)
                      resp == Seen(id, p).resp
                  IN  /\ Seen(id, p).render \in {"ok", "failed"}
                      /\ Seen(id, p).render = "failed" => (Len(rs) = 0 /\ resp.kind = "none")
                      /\ Seen(id, p).render = "ok" =>
                            /\ resp.kind # "none"
                            /\ OracleListed(resp) =>
                                  Len(rs) = (IF Len(resp.value.signatures) = 0
                                             THEN 1 ELSE Len(resp.value.signatures))

(* six candidate pages in two chunks; the rendering of the second page      *)
(* failed; the first page (same chunk) and the sixth (next chunk) have      *)
(* their records                                                            *)
C8_Witness ==
    \E id \in DocIds :
        /\ StatusOf(documents, id) = "completed"
        /\ ScanCandidates(id) = 1..6
        /\ Seen(id, 2).render = "failed"
        /\ Len(RecordsOfPage(DocOf(documents, id), 0)) = 1
        /\ Len(RecordsOfPage(DocOf(documents, id), 5)) = 2

----------------------------------------------------------------------------
(* C9: a document whose page count or whose scan failed is in status error  *)
(* with an empty record list once its run has returned; and in every        *)
(* reachable state a document in status error has an empty record list.     *)
C9_ErrorHasNoRecords ==
    \A id \in DocIds :
        HasDoc(documents, id) =>
            /\ (run[id].pc = "done" /\ observed[id].load \in {"countFailed", "scanFailed"}) =>
                  /\ StatusOf(documents, id) = "error"
                  /\ DocOf(documents, id).extractedPages = <<>>
            /\ StatusOf(documents, id) = "error" =>
                  DocOf(documents, id).extractedPages = <<>>

(* one document failed at its page count, another at its scan, next to a    *)
(* rejected upload                                                          *)
C9_Witness ==
    \E i, j \in DocIds :
        /\ HasDoc(documents, i) /\ observed[i].load = "countFailed" /\ run[i].pc = "done"
        /\ HasDoc(documents, j) /\ observed[j].load = "scanFailed" /\ run[j].pc = "done"

----------------------------------------------------------------------------
(* C10: an uploaded item whose MIME type is not application/pdf and whose   *)
(* name does not end in .pdf (in any letter case) is created in status      *)
(* error and stays as created: no Extract request starts a run for it or    *)
(* changes its status, progress, page count or records.                     *)
NotPdf(f) == FileType(f) # "application/pdf" /\ ~endsWith(toLowerCase(f), ".pdf")

C10_NonPdfRejected ==
    \A id \in DocIds :
        (HasDoc(documents, id) /\ NotPdf(DocOf(documents, id).file)) =>
            /\ DocOf(documents, id).status = "error"
            /\ DocOf(documents, id).progress = NoProgress
            /\ DocOf(documents, id).pageCount = 0
            /\ DocOf(documents, id).extractedPages = <<>>
            /\ run[id].pc = "idle"
            /\ observed[id] = NoHistory

(* an item that is no PDF was uploaded no later than a document that an     *)
(* Extract request has since completed                                      *)
C10_Witness ==
    \E i, j \in DocIds :
        /\ i < j
        /\ HasDoc(documents, i) /\ NotPdf(DocOf(documents, i).file)
        /\ DocOf(documents, i).name = "pdf.docx"
        /\ StatusOf(documents, j) = "completed"

----------------------------------------------------------------------------
(* the index list the scanner returned to the run of document id, as the   *)
(* pipeline holds it while it works through the chunks                     *)
ReturnedIndices(id) ==
    [k \in 1..Len(run[id].signaturePages) |-> run[id].signaturePages[k].pageIndex]

ScanReturned(id) == run[id].pc = "chunk"

(* C11: whatever the order in which the pages of a batch complete, the      *)
(* index list the scanner returns is strictly ascending (hence without      *)
(* duplicates) and every index i satisfies 0 <= i < pageCount.              *)
C11_ScanAscending ==
    \A id \in DocIds :
        ScanReturned(id) =>
            LET s == ReturnedIndices(id)
            IN  /\ \A i, j \in 1..Len(s) : i < j => s[i] < s[j]
                /\ \A i \in 1..Len(s) : 0 <= s[i] /\ s[i] < NumPages(observed[id].file)
                /\ run[id].pageCount = NumPages(observed[id].file)

(* the scan returned indices found in both batches *)
C11_Witness ==
    \E id \in DocIds :
        /\ ScanReturned(id)
        /\ ReturnedIndices(id) = <<0, 1, 2, 9, 10, 11>>

----------------------------------------------------------------------------
(* C12: a failure to read the text of a page makes only that page a         *)
(* non-candidate.  Once the scanner's load has succeeded the scan visits    *)
(* every page of the document and, when it returns indices, returns         *)
(* exactly those of the pages whose text was read and matched the pattern.  *)
C12_PageFailureIsolated ==
    \A id \in DocIds :
        /\ ScanReturned(id) =>
              /\ \A p \in 1..NumPages(observed[id].file) : observed[id].scan[p] \in {"read", "failed"}
              /\ {ReturnedIndices(id)[k] : k \in 1..Len(run[id].signaturePages)}
                    = {p - 1 : p \in ScanCandidates(id)}
        /\ (run[id].pc = "done" /\ observed[id].load = "loaded") =>
              \A p \in 1..NumPages(observed[id].file) : observed[id].scan[p] \in {"read", "failed"}

(* the text of page 10, which would have matched, and of page 4 could not   *)
(* be read; pages of the same batch and of the next one were returned       *)
C12_Witness ==
    \E id \in DocIds :
        /\ ScanReturned(id)
        /\ observed[id].scan[10] = "failed"
        /\ observed[id].scan[4] = "failed"
        /\ ReturnedIndices(id) = <<0, 1, 2, 10, 11>>

----------------------------------------------------------------------------
(* the batches of a document of n pages: ceil(n / BATCH_SIZE) of them, the  *)
(* b-th holding the pages FirstOfBatch(b) .. LastOfBatch(b, n)              *)
NumBatches(n) == (n + BATCH_SIZE - 1) \div BATCH_SIZE
FirstOfBatch(b) == (b - 1) * BATCH_SIZE + 1
LastOfBatch(b, n) == Min(b * BATCH_SIZE, n)

(* the scan of document id has finished with page p (its text was read and tested, or failed) *)
PageFinished(id, p) == observed[id].scan[p] \in {"read", "failed"}

(* page p has been started: it is in a batch that was launched *)
PageStarted(id, p) ==
    \/ PageFinished(id, p)
    \/ /\ run[id].pc = "scanBatch"
       /\ p \in run[id].batchStart .. (run[id].batchStart + Len(run[id].batch) - 1)

(* C13: during the scan of a document of n pages the batches of 10 run one  *)
(* after another: a page of a batch is started only when every page of the  *)
(* batches before it has finished.  The progress callback is called once    *)
(* after each finished batch and not otherwise, so ceil(n/10) times over    *)
(* the scan; the processed count it is given strictly increases, never      *)
(* exceeds n, equals n in the last call, and the total it is given is n.    *)
C13_BatchesInSequence ==
    \A id \in DocIds :
        observed[id].load = "loaded" =>
            LET n == NumPages(observed[id].file)
                calls == observed[id].calls
                finishedBatches == {b \in 1..NumBatches(n) :
                                      \A p \in FirstOfBatch(b)..LastOfBatch(b, n) : PageFinished(id, p)}
            IN  /\ \A b \in 2..NumBatches(n) :
                      (\E p \in FirstOfBatch(b)..LastOfBatch(b, n) : PageStarted(id, p))
                          => (b - 1) \in finishedBatches
                /\ Len(calls) = Cardinality(finishedBatches)
                /\ \A j \in 1..Len(calls) :
                      /\ calls[j][1] = LastOfBatch(j, n)
                      /\ calls[j][1] <= n
                      /\ calls[j][2] = n
                      /\ j > 1 => calls[j - 1][1] < calls[j][1]
                /\ (run[id].pc \in {"chunk", "done"}) =>
                      /\ Len(calls) = NumBatches(n)
                      /\ calls[Len(calls)][1] = n

(* the scan of the 12-page document has returned after two calls of the callback *)
C13_Witness ==
    \E id \in DocIds :
        /\ ScanReturned(id)
        /\ observed[id].calls = <<<<10, 12>>, <<12, 12>>>>

----------------------------------------------------------------------------
ProgressOf(docs, id) == DocOf(docs, id).progress

ScanPhase(id) == run[id].pc \in {"getPageCount", "scanLoad", "scanBatch"}

ExtractionPhase(id) == run[id].pc = "chunk"

ProgressInRange ==
    \A id \in DocIds :
        HasDoc(documents, id) =>
            LET p == ProgressOf(documents, id)
                st == StatusOf(documents, id)
            IN  /\ st \in {"processing", "completed"} => p \in 0..100
                /\ (st = "processing" /\ ScanPhase(id)) => p \in 0..50
                /\ (st = "processing" /\ ExtractionPhase(id)) => p \in 50..100
                /\ st = "completed" => p = 100

ProgressNeverDecreases ==
    \A id \in DocIds :
        (HasDoc(documents, id) /\ HasDoc(documents', id)) =>
            ProgressOf(documents', id) >= ProgressOf(documents, id)

(* C14: over a pipeline run the document's progress is an integer in       *)
(* 0..100 that no step decreases: it is in 0..50 while the scan is under   *)
(* way, in 50..100 while the chunks are extracted, and 100 once the        *)
(* document is completed.                                                  *)
C14_ProgressMonotone == []ProgressInRange /\ [][ProgressNeverDecreases]_vars

(* the document completed, at progress 100, after two batches of the scan  *)
(* and two chunks of six candidate pages                                   *)
C14_Witness ==
    \E id \in DocIds :
        /\ StatusOf(documents, id) = "completed"
        /\ ProgressOf(documents, id) = 100
        /\ Len(observed[id].calls) = 2
        /\ Cardinality(ScanCandidates(id)) = 6

----------------------------------------------------------------------------
(* the oracle calls of document id that are in flight *)
OracleCallsInFlight(id) == {k \in 1..Len(run[id].tasks) : run[id].tasks[k].stage = "oracle"}

(* the chunk (0, 1, ...) of candidate page p (1-based) of document id: the  *)
(* candidates are taken in ascending order, five at a time                  *)
ChunkOf(id, p) ==
    (Cardinality({q \in ScanCandidates(id) : q < p})) \div CONCURRENT_AI_REQUESTS_PER_DOC

(* the callback of candidate page p has been started / has returned *)
CandidateStarted(id, p) ==
    \/ Seen(id, p).render # "none"
    \/ \E k \in 1..Len(run[id].tasks) : run[id].tasks[k].pageIndex = p - 1

CandidateFinished(id, p) ==
    \/ Seen(id, p).render = "failed"
    \/ Seen(id, p).resp.kind # "none"

(* C15: at every moment at most five oracle calls of a document are in      *)
(* flight, and a candidate page of a later chunk is rendered or sent to     *)
(* the oracle only when every page of the chunks before it has finished,    *)
(* with or without success.                                                 *)
C15_ChunksBoundOracleCalls ==
    \A id \in DocIds :
        /\ Cardinality(OracleCallsInFlight(id)) <= 5
        /\ Len(run[id].tasks) <= 5
        /\ observed[id].load = "loaded" =>
              \A p, q \in ScanCandidates(id) :
                  (ChunkOf(id, p) < ChunkOf(id, q) /\ CandidateStarted(id, q)) =>
                      CandidateFinished(id, p)

(* five oracle calls are in flight and the sixth candidate page waits *)
C15_Witness ==
    \E id \in DocIds :
        /\ Cardinality(OracleCallsInFlight(id)) = 5
        /\ Cardinality(ScanCandidates(id)) = 6
        /\ ~CandidateStarted(id, 6)

----------------------------------------------------------------------------
(* C16: the entry of a document (status, progress, page count, record       *)
(* list) is changed only by a step of that document's own run.  Whatever    *)
(* step is taken while several runs are in flight, every document that is  *)
(* present before and after it and whose own run did not take the step      *)
(* keeps its entry; so the failure of one document changes no other         *)
(* document's status.                                                       *)
C16_RunsOwnTheirDocument ==
    [][\A id \in DocIds :
          (HasDoc(documents, id) /\ HasDoc(documents', id) /\ run'[id] = run[id]) =>
              DocOf(documents', id) = DocOf(documents, id)]_vars

(* two runs of one request: one document failed in its scan while the      *)
(* other, untouched, is in its extraction phase                            *)
C16_Witness ==
    \E i, j \in DocIds :
        /\ request = {i, j} /\ i # j
        /\ StatusOf(documents, i) = "error"
        /\ observed[i].load = "scanFailed"
        /\ StatusOf(documents, j) = "processing"
        /\ run[j].pc = "chunk"

----------------------------------------------------------------------------
(* document id was uploaded and has since been removed *)
Removed(id) == id < nextId /\ ~HasDoc(documents, id)

(* a removed document stays removed, and a step of the run of a removed     *)
(* document leaves the document list as it is                               *)
RemovedStaysRemoved ==
    \A id \in DocIds :
        Removed(id) =>
            /\ ~HasDoc(documents', id)
            /\ run'[id] # run[id] => documents' = documents

(* C17: when a document is removed while its run is in flight, every later  *)
(* update of that run is discarded: the document never reappears, the       *)
(* steps of its run change no document, the run goes on to its return       *)
(* without raising an error, and the processing request it belongs to       *)
(* finishes (as long as the external calls in flight return or throw).      *)
C17_RemovedDocumentDiscarded ==
    /\ [][RemovedStaysRemoved]_vars
    /\ \A id \in DocIds :
          (Removed(id) /\ Running(id) /\ id \in request)
              ~> (Removed(id) /\ run[id].pc = "done" /\ request = {})

(* a document was removed while in flight; its run went through the oracle  *)
(* call and returned, the request has finished, and the other document of   *)
(* the request is completed                                                 *)
C17_Witness ==
    \E i, j \in DocIds :
        /\ Removed(i)
        /\ run[i].pc = "done"
        /\ \E p \in DOMAIN observed[i].pages : OracleListed(Seen(i, p).resp)
        /\ request = {} /\ ~isProcessing
        /\ StatusOf(documents, j) = "completed"

----------------------------------------------------------------------------
(* C18: a step that removes a document deletes exactly that document and   *)
(* its records: the documents before and after it are the same entries in  *)
(* the same order (status, progress, page count and record list included)  *)
(* but for the removed one, and the records on display are the ones that   *)
(* were on display but for those of the removed document.                  *)

RecordsOnDisplay(pages) == {pages[i] : i \in 1..Len(pages)}

RemovesExactly(id) ==
    /\ \E k \in 1..Len(documents) :
          /\ documents[k].id = id
          /\ documents' = SubSeq(documents, 1, k - 1) \o SubSeq(documents, k + 1, Len(documents))
    /\ RecordsOnDisplay(displayedPages') =
            {p \in RecordsOnDisplay(displayedPages) : p.documentId # id}
    /\ Len(displayedPages') = Cardinality(RecordsOnDisplay(displayedPages'))

C18_RemovalIsExact ==
    [][\A id \in DocIds :
          HasDoc(documents, id) /\ ~HasDoc(documents', id) => RemovesExactly(id)]_vars

(* the second of three documents has been removed: the first and the third remain, in that order *)
C18_Witness ==
    /\ documents = <<ReviewDocument(1), ReviewDocument(3)>>
    /\ Len(displayedPages) = 3

----------------------------------------------------------------------------
(* C19: the ordering on display depends on the current records and the    *)
(* current mode only, not on the modes displayed before: whenever the      *)
(* agreement mode is on display, the ordering is the one a user sees who   *)
(* never left that mode, which is the sort of the records as the documents *)
(* hold them.                                                              *)

C19_OrderFromRecordsAlone ==
    groupingMode = "agreement" => displayedPages = sort(flatMap(documents), "agreement")

----------------------------------------------------------------------------
(* C20: computing the grouping twice in a row on an unchanged record set   *)
(* yields the same grouping: a step that leaves the mode and the set of    *)
(* records as they were (whether or not it makes the engine run again)     *)
(* leaves the order of the group labels and the order of the records on    *)
(* display as they were.                                                   *)

RecordSet(docs) == RecordsOnDisplay(flatMap(docs))

SameGrouping ==
    /\ navigationGroups' = navigationGroups
    /\ displayedPages' = displayedPages

C20_RegroupingIsStable ==
    [][groupingMode' = groupingMode /\ RecordSet(documents') = RecordSet(documents)
          => SameGrouping]_vars

----------------------------------------------------------------------------
(* records i and i + 1 of the list on screen *)
Adjacent(pages) == {i \in 1..Len(pages) : i + 1 <= Len(pages)}

SameDocumentAndParty(a, b) ==
    /\ a.partyName = b.partyName
    /\ a.documentName = b.documentName

(* C21: in the by-counterparty ordering, of two adjacent records with the  *)
(* same party name and the same document name the earlier one has the      *)
(* smaller or equal page index, after any sequence of mode switches and    *)
(* edits.                                                                  *)
C21_PageIndexBreaksTies ==
    groupingMode = "counterparty" =>
        \A i \in Adjacent(displayedPages) :
            SameDocumentAndParty(displayedPages[i], displayedPages[i + 1])
                => displayedPages[i].pageIndex <= displayedPages[i + 1].pageIndex

----------------------------------------------------------------------------
EmptySignatoriesLast(pages) ==
    \A i \in 1..Len(pages) :
        \A j \in 1..Len(pages) :
            (pages[i].signatoryName = "" /\ pages[j].signatoryName # "") => j < i

PartyAscendingWithinSignatory(pages) ==
    \A i \in 1..Len(pages) :
        \A j \in 1..Len(pages) :
            (i < j /\ pages[i].signatoryName = pages[j].signatoryName)
                => localeCompare(pages[i].partyName, pages[j].partyName) <= 0

(* C22: in the by-signatory ordering every record with an empty signatory  *)
(* name comes after every record with a non-empty one, whatever the        *)
(* non-empty names are, and records with the same signatory name are in    *)
(* ascending order of their party names.                                   *)
C22_EmptySignatoryAfterAllNames ==
    groupingMode = "signatory" =>
        /\ EmptySignatoriesLast(displayedPages)
        /\ PartyAscendingWithinSignatory(displayedPages)

----------------------------------------------------------------------------
(* the records the assembler filed, and the groups that hold a record *)
FiledRecords(groups) ==
    UNION {RecordsOnDisplay(groups[g].pages) : g \in 1..Len(groups)}

PacketsOf(groups, page) ==
    {g \in 1..Len(groups) : page \in RecordsOnDisplay(groups[g].pages)}

(* C23: the assembler partitions the records with copies > 0 as the        *)
(* grouping engine does: two such records are in the same packet exactly   *)
(* when they are under the same group label on screen.                     *)
C23_PacketsAreScreenGroups ==
    exporting =>
        \A a \in FiledRecords(exportCall.groups) :
            \A b \in FiledRecords(exportCall.groups) :
                (PacketsOf(exportCall.groups, a) = PacketsOf(exportCall.groups, b))
                    <=> (GroupLabel(exportCall.groupingMode, a)
                            = GroupLabel(exportCall.groupingMode, b))

----------------------------------------------------------------------------
(* the pages of a PDF that were added for record id, and the packets with such a page *)
Showing(pdf, id) == {k \in 1..Len(pdf) : pdf[k].of = id}

HoldersOf(packets, id) == {g \in 1..Len(packets) : Showing(packets[g], id) # {}}

Consecutive(S) ==
    \A k \in S : \A l \in S : \A j \in k..l : j \in S

(* a ZIP was handed to the browser in this step *)
Downloaded == downloaded.name # ""

----------------------------------------------------------------------------
(* the groups the assembler is to write: the keys with a record of copies > 0 *)
GroupsToWrite(call) ==
    {GroupKey(call.groupingMode, call.pagesToInclude[i]) :
        i \in {j \in 1..Len(call.pagesToInclude) : call.pagesToInclude[j].copies > 0}}

(* C25: the mapping the assembler returns has exactly one entry for each   *)
(* distinct group with a record of copies > 0: the number of files equals  *)
(* the number of such groups, whatever the group names are.                *)
C25_OneFilePerGroup ==
    Downloaded =>
        Cardinality(DOMAIN downloaded.files) = Cardinality(GroupsToWrite(downloaded.call))

----------------------------------------------------------------------------
(* the record a page of a packet was added for *)
RecordOf(call, id) ==
    call.pagesToInclude[CHOOSE i \in 1..Len(call.pagesToInclude) :
                            call.pagesToInclude[i].id = id]

(* a before b by document name, then by page index *)
InDocumentOrder(a, b) ==
    \/ localeCompare(a.documentName, b.documentName) < 0
    \/ /\ a.documentName = b.documentName
       /\ a.pageIndex <= b.pageIndex

(* C26: inside every packet the records are in the order of their         *)
(* document names and, within one document name, of their page indices,    *)
(* whatever the grouping mode and the order of the list on screen.         *)
C26_PacketInDocumentOrder ==
    Downloaded =>
        \A g \in 1..Len(downloaded.packets) :
            \A k \in Adjacent(downloaded.packets[g]) :
                InDocumentOrder(RecordOf(downloaded.call, downloaded.packets[g][k].of),
                                RecordOf(downloaded.call, downloaded.packets[g][k + 1].of))

(* a download in counterparty or signatory mode with a group whose records *)
(* were not in that order on screen                                        *)
C26_Witness ==
    /\ Downloaded
    /\ downloaded.call.groupingMode # "agreement"
    /\ \E g \in 1..Len(downloaded.call.groups) :
          \E i \in Adjacent(downloaded.call.groups[g].pages) :
              ~InDocumentOrder(downloaded.call.groups[g].pages[i],
                               downloaded.call.groups[g].pages[i + 1])

----------------------------------------------------------------------------
(* the export that ended in this step met a failure inside the assembler *)
AssemblerFailed == downloaded.failure.kind \in {"source", "save"}

(* C27: if reading or loading a source file, or serializing the PDF of any *)
(* group, fails, the whole export fails: no mapping is returned, not a     *)
(* partial one either, no ZIP is downloaded, and the busy flag and the     *)
(* status message are cleared.                                             *)
C27_FailureIsTotal ==
    AssemblerFailed =>
        /\ downloaded.name = ""
        /\ downloaded.files = <<>>
        /\ downloaded.alert = "Failed to generate ZIP pack"
        /\ ~isProcessing
        /\ currentStatus = ""
        /\ ~exporting

(* saving the PDF of the second group failed, after the first one was built *)
C27_Witness ==
    /\ downloaded.failure = SaveFailure(2)
    /\ Len(downloaded.call.groups) >= 2
    /\ downloaded.name = ""
    /\ ~isProcessing

----------------------------------------------------------------------------
(* the fields a card edits, and the values the handlers are called with *)
EditableFields == {"partyName", "signatoryName", "capacity", "copies"}

EditValues(field, page) ==
    CASE field = "partyName"     -> {"Beta LLC"}
      [] field = "signatoryName" -> {"Adam Jones", ""}
      [] field = "capacity"      -> {"CFO"}
      [] OTHER                   -> 0..(page.copies + 1)

EditOf(field, page, value) ==
    CASE field = "partyName"     -> HandleUpdateParty(page, value)
      [] field = "signatoryName" -> HandleUpdateSignatory(page, value)
      [] field = "capacity"      -> HandleUpdateCapacity(page, value)
      [] OTHER                   -> HandleUpdateCopies(page, value)

(* docs and after are the same documents but for field of record pageId, *)
(* which is value in after                                                *)
OnlyFieldChanged(docs, after, pageId, field, value) ==
    /\ Len(after) = Len(docs)
    /\ \A k \in 1..Len(docs) :
          /\ [after[k] EXCEPT !.extractedPages = <<>>] = [docs[k] EXCEPT !.extractedPages = <<>>]
          /\ Len(after[k].extractedPages) = Len(docs[k].extractedPages)
          /\ \A i \in 1..Len(docs[k].extractedPages) :
                LET p == docs[k].extractedPages[i]
                    q == after[k].extractedPages[i]
                IN  IF p.id = pageId
                    THEN /\ q[field] = value
                         /\ DOMAIN q = DOMAIN p
                         /\ \A f \in DOMAIN p \ {field} : q[f] = p[f]
                    ELSE q = p

(* record identifiers, of the records there are and of others *)
RecordIds == {<<d, i, n>> : d \in DocIds, i \in 0..2, n \in 1..2}

IdsOf(docs) == {page.id : page \in RecordSet(docs)}

EditOfAbsentRecordChangesNothing ==
    \A pageId \in RecordIds \ IdsOf(documents) :
        \A field \in EditableFields :
            \A value \in EditValues(field, [copies |-> 1]) :
                UpdatePage(documents, pageId, field, value) = documents

EditChangesOneField ==
    \A i \in 1..Len(displayedPages) :
        \A field \in EditableFields :
            \A value \in EditValues(field, displayedPages[i]) :
                EditOf(field, displayedPages[i], value)
                    => OnlyFieldChanged(documents, documents', displayedPages[i].id, field, value)

(* C28: an edit of the party, signatory, capacity or copies of a record    *)
(* changes that field of the record with the given identifier and nothing  *)
(* else: every other field of it, every other record and every document    *)
(* is unchanged; an edit whose identifier matches no record changes        *)
(* nothing.                                                                *)
C28_EditIsLocal == []EditOfAbsentRecordChangesNothing /\ [][EditChangesOneField]_vars

(* the party of Adam Jones's record was edited to Beta LLC; the six        *)
(* records are there, and there are identifiers that match none of them    *)
C28_Witness ==
    /\ edits = 1
    /\ \E page \in RecordSet(documents) :
          /\ page.signatoryName = "Adam Jones"
          /\ page.partyName = "Beta LLC"
    /\ RecordIds \ IdsOf(documents) # {}
    /\ Cardinality(IdsOf(documents)) = 6

----------------------------------------------------------------------------
(* the places of record page on screen, and the groups that carry its label *)
PlacesOf(pages, page) == {i \in 1..Len(pages) : pages[i].id = page.id}

GroupsWith(groups, label) == {g \in 1..Len(groups) : groups[g] = label}

(* each record of the documents is on screen once, with its current field  *)
(* values, and exactly one group carries its label                         *)
OneGroupPerRecord ==
    \A page \in RecordSet(documents) :
        /\ Cardinality(PlacesOf(displayedPages, page)) = 1
        /\ \A i \in PlacesOf(displayedPages, page) : displayedPages[i] = page
        /\ Cardinality(GroupsWith(navigationGroups, GroupLabel(groupingMode, page))) = 1

(* in by-counterparty mode an edit of the party puts the record under the  *)
(* new party name and under no other label; that one group carries the     *)
(* label is OneGroupPerRecord in the state after the edit                  *)
PartyEditMovesRecord ==
    \A i \in 1..Len(displayedPages) :
        \A newParty \in EditValues("partyName", displayedPages[i]) :
            (groupingMode = "counterparty" /\ HandleUpdateParty(displayedPages[i], newParty))
                => /\ Cardinality(PlacesOf(displayedPages', displayedPages[i])) = 1
                   /\ \A j \in PlacesOf(displayedPages', displayedPages[i]) :
                         /\ GroupLabel(groupingMode', displayedPages'[j]) = newParty
                         /\ GroupLabel(groupingMode', displayedPages'[j]) # displayedPages[i].partyName

(* C29: after an edit of a record's party name the by-counterparty          *)
(* grouping has the record in the group labelled with the new name and in   *)
(* no other; under every mode each record is in exactly one group, the one  *)
(* its current field values give.                                           *)
C29_RecordInOneGroup == []OneGroupPerRecord /\ [][PartyEditMovesRecord]_vars

(* by counterparty, the record of Adam Jones was moved from Acme Corp to Beta LLC *)
C29_Witness ==
    /\ groupingMode = "counterparty"
    /\ edits = 1
    /\ navigationGroups = <<"Acme Corp", "Beta LLC", "Unknown Party">>
    /\ \E i \in 1..Len(displayedPages) :
          /\ displayedPages[i].signatoryName = "Adam Jones"
          /\ displayedPages[i].partyName = "Beta LLC"

----------------------------------------------------------------------------
CopiesOf(docs, pageId) ==
    (CHOOSE page \in RecordSet(docs) : page.id = pageId).copies

(* the - button of a card: onUpdateCopies(page.id, Math.max(0, page.copies - 1)) *)
MinusClicked(page) ==
    HandleUpdateCopies(page, IF page.copies - 1 > 0 THEN page.copies - 1 ELSE 0)

CopiesAreCounts ==
    /\ \A page \in RecordSet(documents) : page.copies \in Nat
    /\ edits = 0 => \A page \in RecordSet(documents) : page.copies = 1

RecordsPerDocument(docs) ==
    [k \in 1..Len(docs) |-> [i \in 1..Len(docs[k].extractedPages) |-> docs[k].extractedPages[i].id]]

MinusStopsAtZero ==
    \A i \in 1..Len(displayedPages) :
        (displayedPages[i].copies = 0 /\ MinusClicked(displayedPages[i]))
            => CopiesOf(documents', displayedPages[i].id) = 0

CopiesKeepRecords ==
    \A i \in 1..Len(displayedPages) :
        \A newCount \in 0..(displayedPages[i].copies + 1) :
            HandleUpdateCopies(displayedPages[i], newCount)
                => RecordsPerDocument(documents') = RecordsPerDocument(documents)

(* C30: the copy count of every record is an integer >= 0 in every state:  *)
(* a record starts at 1, the minus control leaves a count of 0 at 0, and a *)
(* record whose count reaches 0 stays in the record list of its document.  *)
C30_CopiesNeverNegative ==
    /\ []CopiesAreCounts
    /\ [][MinusStopsAtZero /\ CopiesKeepRecords]_vars

(* two clicks on the minus button of one card: the record is at 0 and   *)
(* still in the list, the five others are at 1                          *)
C30_Witness ==
    /\ edits = 2
    /\ Cardinality({page \in RecordSet(documents) : page.copies = 0}) = 1
    /\ Cardinality({page \in RecordSet(documents) : page.copies = 1}) = 5

----------------------------------------------------------------------------
(* the record of pageId as documents docs hold it *)
HeldRecord(docs, pageId) ==
    LET k == CHOOSE k \in 1..Len(docs) :
                 \E i \in 1..Len(docs[k].extractedPages) : docs[k].extractedPages[i].id = pageId
        i == CHOOSE i \in 1..Len(docs[k].extractedPages) : docs[k].extractedPages[i].id = pageId
    IN  docs[k].extractedPages[i]

(* every record of a completed document lies on a page its scan returned *)
RecordsOnScannedPages ==
    \A k \in 1..Len(documents) :
        documents[k].status = "completed" =>
            \A i \in 1..Len(documents[k].extractedPages) :
                LET p == documents[k].extractedPages[i]
                IN  /\ p.documentId = documents[k].id
                    /\ p.pageIndex + 1 \in ScanCandidates(documents[k].id)
                    /\ 0 <= p.pageIndex
                    /\ p.pageIndex < documents[k].pageCount
                    /\ p.pageNumber = p.pageIndex + 1

(* a step keeps the page and the document of every record it keeps *)
RecordsStayInPlace ==
    \A pageId \in IdsOf(documents) \cap IdsOf(documents') :
        /\ HeldRecord(documents', pageId).pageIndex = HeldRecord(documents, pageId).pageIndex
        /\ HeldRecord(documents', pageId).documentId = HeldRecord(documents, pageId).documentId

(* C31: in every reachable state every record of a completed document has a *)
(* pageIndex that the scan of its owning document returned, with            *)
(* 0 <= pageIndex < pageCount and pageNumber = pageIndex + 1; no step, and  *)
(* so no user action, changes the pageIndex or the documentId of a record.  *)
C31_RecordsKeepTheirPage ==
    []RecordsOnScannedPages /\ [][RecordsStayInPlace]_vars

(* both documents are completed, the extracted one has a record on its last *)
(* page, and the user has edited a record                                   *)
C31_Witness ==
    /\ edits > 0
    /\ \A k \in 1..Len(documents) : documents[k].status = "completed"
    /\ Len(documents) = 2
    /\ \E i \in 1..Len(documents[2].extractedPages) :
          documents[2].extractedPages[i].pageIndex = documents[2].pageCount - 1

----------------------------------------------------------------------------
(* what the Download click sees: the documents, the records on display and the mode *)
ClickState ==
    [documents |-> documents,
     pagesToInclude |-> displayedPages,
     groups |-> GroupsOf(displayedPages, groupingMode),
     groupingMode |-> groupingMode]

(* what an export of click state call hands to the browser when its calls fail as failure *)
OutcomeOf(call, failure) ==
    LET pdfs == AssemblePdfs(call.documents, GroupsOf(call.pagesToInclude, call.groupingMode),
                             failure)
    IN  IF pdfs.threw \/ failure.kind = "zip"
        THEN [name |-> "", files |-> <<>>, alert |-> "Failed to generate ZIP pack"]
        ELSE [name |-> "SignaturePack_" \o call.groupingMode \o "_", files |-> pdfs.value,
              alert |-> ""]

Handed == [name |-> downloaded.name, files |-> downloaded.files, alert |-> downloaded.alert]

(* the click starts an export of what is on screen; nothing done while it is in *)
(* flight reaches it; what it hands over is the outcome of the click state      *)
ExportOfClickState ==
    /\ ~exporting /\ exporting' => exportCall' = ClickState
    /\ exporting /\ exporting' => exportCall' = exportCall
    /\ exporting /\ ~exporting' => Handed' = OutcomeOf(exportCall, downloaded'.failure)

(* C32: the output of an export depends only on the documents, the records  *)
(* and the grouping mode at the moment Download is triggered: edits,        *)
(* deletions, document removals and mode switches made while the export is  *)
(* in flight change neither which packets are produced nor their contents.  *)
C32_ExportIsASnapshot == [][ExportOfClickState]_vars

(* a ZIP has been handed over although, since the click, a document with  *)
(* records in it was removed, a record was edited and the mode was switched *)
C32_Witness ==
    /\ Downloaded
    /\ downloaded.files # <<>>
    /\ downloaded.call.groupingMode # groupingMode
    /\ Len(downloaded.call.documents) > Len(documents)
    /\ edits > 0
    /\ RecordSet(documents) \ RecordSet(downloaded.call.documents) # {}

----------------------------------------------------------------------------
(* the places <<i, e>> where text holds a vocabulary term, in any letter case: *)
(* from position i up to, not including, position e                           *)
TermPlaces(text) ==
    {ie \in (1..Len(text)) \X (1..(Len(text) + 1)) :
        \E a \in 1..Len(Vocabulary) : ie[2] \in TermEnds(text, ie[1], Vocabulary[a])}

(* the term at that place is a whole word: no word character directly before or after *)
WholeWord(text, ie) == ~WordCharAt(text, ie[1] - 1) /\ ~WordCharAt(text, ie[2])

(* the pages of the file of terms that the scan of document id returned, 1-based *)
Classified(id) == {ReturnedIndices(id)[k] + 1 : k \in 1..Len(ReturnedIndices(id))}

(* C33: the page classifier returns true for every text that contains a      *)
(* vocabulary term as a whole word in any letter case, and false for a text  *)
(* in which vocabulary terms occur only as part of a longer word (a word     *)
(* character directly before or after the term).                             *)
C33_WholeWordsOnly ==
    \A id \in DocIds :
        ScanReturned(id) /\ observed[id].file = TermsFile =>
            \A p \in 1..Len(PageTexts) :
                LET places == TermPlaces(PageText(p))
                IN  /\ (\E ie \in places : WholeWord(PageText(p), ie)) => p \in Classified(id)
                    /\ (places # {} /\ \A ie \in places : ~WholeWord(PageText(p), ie))
                          => p \notin Classified(id)

(* the scan has returned: the page "By:," is a candidate, the page "Date:2024" is not *)
C33_Witness ==
    \E id \in DocIds :
        /\ ScanReturned(id)
        /\ observed[id].file = TermsFile
        /\ \E p \in Classified(id) : PageText(p) = "By:,"
        /\ \E p \in 1..Len(PageTexts) : PageText(p) = "Date:2024" /\ p \notin Classified(id)

----------------------------------------------------------------------------
(* name holds none of the characters / \ ? % * : | " < > *)
FreeOfIllegalChars(name) == \A k \in 1..Len(name) : SubSeq(name, k, k) \notin IllegalChars

(* the group name holds nothing but characters that are removed and white space *)
OnlyStripped(groupName) ==
    \A k \in 1..Len(groupName) : SubSeq(groupName, k, k) \in IllegalChars \cup WhiteSpace

(* the group name without the characters that are removed, and without the white *)
(* space around what is left                                                      *)
Cleaned(groupName) == trim(RemoveIllegal(groupName))

HasPdfEnding(name) == endsWith(toLowerCase(name), ".pdf")

(* the file name the claim gives a group name: "Signature_Pack.pdf" for a name of *)
(* stripped characters and white space, else what is left of it, with ".pdf"     *)
(* behind it when it does not end so                                             *)
NameFor(groupName) ==
    IF OnlyStripped(groupName) THEN "Signature_Pack.pdf"
    ELSE IF HasPdfEnding(Cleaned(groupName)) THEN Cleaned(groupName)
    ELSE Cleaned(groupName) \o ".pdf"

(* C34: every output file name is non-empty, holds none of the characters   *)
(* / \ ? % * : | " < >, ends with ".pdf" in some letter case, the ending     *)
(* being appended once exactly when it is absent, and is                     *)
(* "Signature_Pack.pdf" when the group name is empty or holds only stripped  *)
(* characters and white space; sanitizing a sanitized name changes nothing.  *)
C34_FileNamesAreSafe ==
    Downloaded =>
        /\ \A name \in DOMAIN downloaded.files :
              /\ name # ""
              /\ FreeOfIllegalChars(name)
              /\ HasPdfEnding(name)
              /\ SafeName(name) = name
        /\ DOMAIN downloaded.files =
              {NameFor(downloaded.call.groups[g].groupName) :
                  g \in 1..Len(downloaded.call.groups)}

(* a ZIP went out whose groups had a name of stripped characters only, or a name *)
(* that ends in ".PDF" or loses characters on both sides                         *)
C34_Witness ==
    /\ Downloaded
    /\ \E g \in 1..Len(downloaded.call.groups) :
          downloaded.call.groups[g].groupName \in {":?", "Annex.PDF", "<*>.pdf", "Acme Corp :"}

----------------------------------------------------------------------------
(* a document that is processing shows the application busy *)
ProcessingIsBusy ==
    \A k \in 1..Len(documents) : documents[k].status = "processing" => isProcessing

(* the busy flag is cleared when no document of the request is left in the pipeline *)
BusyUntilRequestOver ==
    isProcessing /\ ~isProcessing' =>
        \A id \in request : StatusOf(documents', id) \in {"completed", "error", "absent"}

(* C35: in every reachable state, if any document has status processing then *)
(* the busy flag isProcessing is true; the flag returns to false only after  *)
(* every document of the processing request has reached completed or error   *)
(* (or was removed), and it does eventually return to false (as long as the  *)
(* external calls in flight return or throw).                                *)
C35_BusyCoversProcessing ==
    /\ []ProcessingIsBusy
    /\ [][BusyUntilRequestOver]_vars
    /\ (isProcessing ~> ~isProcessing)

(* a request of two documents is over and the flag is down: one document is *)
(* completed, the other was removed while its run was in flight            *)
C35_Witness ==
    \E i, j \in DocIds :
        /\ i # j
        /\ ~isProcessing
        /\ StatusOf(documents, i) = "completed"
        /\ Removed(j)
        /\ run[j].pc = "done"

----------------------------------------------------------------------------
(* the step launches the pipeline run of document id *)
Launched(id) == run'[id] # run[id] /\ run'[id].pc = "getPageCount"

(* a run is launched for a pending document that never had one, by a request *)
(* made while no other is in flight                                          *)
LaunchesPendingOnly ==
    \A id \in DocIds :
        Launched(id) =>
            /\ StatusOf(documents, id) = "pending"
            /\ run[id].pc = "idle"
            /\ ~isProcessing /\ isProcessing'
            /\ id \in request'

(* a pending document leaves pending through the launch of its run, and through *)
(* nothing else                                                                 *)
PendingUntilLaunched ==
    \A id \in DocIds :
        StatusOf(documents, id) = "pending" /\ StatusOf(documents', id) \notin {"pending", "absent"}
            => Launched(id)

(* a run that has been launched is never replaced by a new one *)
OneRunPerDocument ==
    \A id \in DocIds :
        run[id].pc # "idle" /\ run'[id] # run[id] => run'[id].pc \notin {"idle", "getPageCount"}

(* C36: each document is run through the pipeline at most once: an Extract  *)
(* request launches only documents whose status is pending, and documents   *)
(* uploaded while a request is in flight stay pending until a later Extract *)
(* request, so no document ever has two pipeline runs writing its state.    *)
C36_LaunchedAtMostOnce ==
    [][LaunchesPendingOnly /\ PendingUntilLaunched /\ OneRunPerDocument]_vars

(* a later request is in flight for one document, after the run of an earlier *)
(* request has returned with its document completed                           *)
C36_Witness ==
    \E i, j \in DocIds :
        /\ i # j
        /\ request = {j}
        /\ run[j].pc = "chunk"
        /\ run[i].pc = "done"
        /\ StatusOf(documents, i) = "completed"

----------------------------------------------------------------------------
(* the records of the list stand in the order of their pages *)
ByPageIndex(records) ==
    \A i, j \in 1..Len(records) : i < j => records[i].pageIndex <= records[j].pageIndex

(* the records of page pageNum of document id stand in the order of the blocks *)
(* the oracle listed for that page                                             *)
InBlockOrder(id, pageNum) ==
    LET sigs == Seen(id, pageNum).resp.value.signatures
        rs == RecordsOfPage(DocOf(documents, id), pageNum - 1)
    IN  /\ Len(rs) = Len(sigs)
        /\ \A k \in 1..Len(sigs) :
              /\ rs[k].partyName = OrElse(sigs[k].partyName, "Unknown Party")
              /\ rs[k].capacity = OrElse(sigs[k].capacity, "Signatory")

(* C37: the record list of a completed document is ordered by page index,   *)
(* non-decreasing, and the records of one page keep the oracle's block      *)
(* order, whatever the order in which the render and oracle calls of a      *)
(* chunk complete; so is the list a run holds between its chunks.           *)
C37_RecordsInPageOrder ==
    \A id \in DocIds :
        /\ ByPageIndex(run[id].extractedPages)
        /\ (HasDoc(documents, id) /\ StatusOf(documents, id) = "completed") =>
              /\ ByPageIndex(DocOf(documents, id).extractedPages)
              /\ \A p \in ScanCandidates(id) :
                    (OracleListed(Seen(id, p).resp) /\ Len(Seen(id, p).resp.value.signatures) >= 1)
                        => InBlockOrder(id, p)

(* a completed document of two chunks: records of the first five pages, then *)
(* the two records of the page with two blocks, "Beta LLC" last              *)
C37_Witness ==
    \E id \in DocIds :
        /\ StatusOf(documents, id) = "completed"
        /\ LET records == DocOf(documents, id).extractedPages
           IN  /\ Len(records) = 7
               /\ records[1].pageIndex = 0
               /\ records[6].pageIndex = 5 /\ records[6].partyName = "Unknown Party"
               /\ records[7].pageIndex = 5 /\ records[7].partyName = "Beta LLC"

----------------------------------------------------------------------------
(* the group labels of the cards, in the order on display *)
LabelsOnDisplay ==
    [i \in 1..Len(displayedPages) |-> GroupLabel(groupingMode, displayedPages[i])]

(* the cards with one label stand side by side *)
ContiguousGroups ==
    \A i, j \in 1..Len(LabelsOnDisplay) :
        i < j /\ LabelsOnDisplay[i] = LabelsOnDisplay[j] =>
            \A k \in i..j : LabelsOnDisplay[k] = LabelsOnDisplay[i]

(* C38: under every grouping mode and every record set, the records with    *)
(* the same group label form one contiguous run of the displayed ordering,  *)
(* so each group header is rendered exactly once and the navigation list    *)
(* (the distinct labels in the order of first appearance) has exactly one   *)
(* entry for each rendered header.                                          *)
C38_OneHeaderPerGroup ==
    /\ ContiguousGroups
    /\ groupHeaders = navigationGroups

====
